---- MODULE Spec2Model ----
(***************************************************************************)
(* Model of the MRT parser of bgp_anomaly_detection                        *)
(* (src/src/bgp_anomaly_detection/mrt_file.py): the record loop of         *)
(* MRTParser.import_bz2, the TABLE_DUMP_V2 handler, AS-path reconstruction *)
(* and the per-path statistics update, for several parser instances that   *)
(* live in one process and therefore share the module-level name `peer`.   *)
(*                                                                         *)
(* Python strings are sequences of one-character strings, so that join,    *)
(* split, startswith and int() are computed and not assumed.               *)
(***************************************************************************)
EXTENDS Integers, Sequences, FiniteSets, TLC

\* ------------------------------------------------------------------ bounds

\* Records read from the record streams of all parser instances together.
MaxRecords == 3

\* The parser instances (one per SnapShot construction) of the process.
Parsers == {1, 2}

\* Snapshots in the list given to one call of Machine.train.
MaxTrain == 2

\* Samples in the history of one property.
MaxHistory == 4

\* The largest count in the history of one property.
MaxCount == 3

\* Profiles in the AS map that is exported and imported.
MaxProfiles == 2

\* ------------------------------------------------------- Python primitives

Digits == {"0", "1", "2", "3", "4", "5", "6", "7", "8", "9"}
Whitespace == {" "}

Min(a, b) == IF a < b THEN a ELSE b
Max(a, b) == IF a > b THEN a ELSE b

\* The value None where a string may stand (no string has an element "None").
None == <<"None">>

\* seq[:n], n of either sign.
PySliceTo(seq, n) ==
    IF n >= 0 THEN SubSeq(seq, 1, Min(n, Len(seq)))
    ELSE SubSeq(seq, 1, Max(0, Len(seq) + n))

\* seq[a:b] for 0 <= a.
PySlice(seq, a, b) ==
    LET hi == IF b >= 0 THEN Min(b, Len(seq)) ELSE Max(0, Len(seq) + b)
    IN  SubSeq(seq, a + 1, hi)

\* sep.join(strs)
RECURSIVE PyJoin(_, _)
PyJoin(sep, strs) ==
    IF Len(strs) = 0 THEN << >>
    ELSE IF Len(strs) = 1 THEN strs[1]
    ELSE strs[1] \o sep \o PyJoin(sep, Tail(strs))

\* str.split(): the maximal runs of non-whitespace characters, in order.
RECURSIVE PySplitFrom(_, _, _, _)
PySplitFrom(str, i, word, acc) ==
    IF i > Len(str) THEN (IF word = << >> THEN acc ELSE Append(acc, word))
    ELSE IF str[i] \in Whitespace
         THEN PySplitFrom(str, i + 1, << >>,
                          IF word = << >> THEN acc ELSE Append(acc, word))
         ELSE PySplitFrom(str, i + 1, Append(word, str[i]), acc)

PySplit(str) == PySplitFrom(str, 1, << >>, << >>)

\* str.startswith(c) for a one-character c.
PyStartsWith(str, c) == Len(str) >= 1 /\ str[1] = c

\* The decimal digits in the order of their values.
AsciiDigits == <<"0", "1", "2", "3", "4", "5", "6", "7", "8", "9">>

\* Decimal digits outside ASCII with their values: ARABIC-INDIC DIGIT THREE and
\* FOUR, FULLWIDTH DIGIT ONE.
UnicodeDigits == ("u0663" :> 3) @@ ("u0664" :> 4) @@ ("uFF11" :> 1)

\* A character of the Unicode category Nd, which int() takes for a digit.
IsDigit(c) == c \in Digits \/ c \in DOMAIN UnicodeDigits

DigitValue(c) ==
    IF c \in DOMAIN UnicodeDigits THEN UnicodeDigits[c]
    ELSE CHOOSE v \in 0..9 : AsciiDigits[v + 1] = c

\* str.strip()
Strip(str) ==
    LET RECURSIVE LStrip(_)
        LStrip(s) ==
            IF Len(s) >= 1 /\ s[1] \in Whitespace THEN LStrip(Tail(s)) ELSE s
        RECURSIVE RStrip(_)
        RStrip(s) ==
            IF Len(s) >= 1 /\ s[Len(s)] \in Whitespace
            THEN RStrip(SubSeq(s, 1, Len(s) - 1)) ELSE s
    IN  RStrip(LStrip(str))

\* The literal of int() without the blanks around it and without its sign.
Unsigned(str) ==
    IF Len(Strip(str)) >= 1 /\ Strip(str)[1] \in {"+", "-"}
    THEN Tail(Strip(str)) ELSE Strip(str)

\* int(str) succeeds: blanks around, a sign, then digits of any script with
\* single underscores between them.
IsInt(str) ==
    LET IsDigitString(s) ==
            /\ Len(s) >= 1
            /\ \A i \in 1..Len(s) :
                   \/ IsDigit(s[i])
                   \/ /\ s[i] = "_"
                      /\ 1 < i /\ i < Len(s)
                      /\ IsDigit(s[i - 1]) /\ IsDigit(s[i + 1])
    IN  IsDigitString(Unsigned(str))

\* The digits of the literal as ASCII digits, without leading zeros.
DigitsOf(str) ==
    LET AsAscii(s) == [i \in 1..Len(s) |-> AsciiDigits[DigitValue(s[i]) + 1]]
        RECURSIVE StripZeros(_)
        StripZeros(s) ==
            IF Len(s) > 1 /\ s[1] = "0" THEN StripZeros(Tail(s)) ELSE s
    IN  StripZeros(AsAscii(SelectSeq(Unsigned(str), IsDigit)))

\* The literal of a number below zero.
IsNegative(str) ==
    /\ Len(Strip(str)) >= 1
    /\ Strip(str)[1] = "-"
    /\ DigitsOf(str) # <<"0">>

\* str(int(str)) for a string that int() accepts: the sign of a negative
\* number, then the ASCII digits without leading zeros.
StrOfInt(str) == (IF IsNegative(str) THEN <<"-">> ELSE << >>) \o DigitsOf(str)

\* int(str) for a string that int() accepts.
IntOf(str) ==
    LET RECURSIVE IntOfDigits(_, _)
        IntOfDigits(s, acc) ==
            IF Len(s) = 0 THEN acc
            ELSE IntOfDigits(Tail(s), 10 * acc + DigitValue(s[1]))
    IN  IF IsNegative(str) THEN 0 - IntOfDigits(DigitsOf(str), 0)
        ELSE IntOfDigits(DigitsOf(str), 0)

\* str(n) for an int n >= 0
RECURSIVE StrOfNat(_)
StrOfNat(n) ==
    IF n < 10 THEN <<AsciiDigits[n + 1]>>
    ELSE Append(StrOfNat(n \div 10), AsciiDigits[(n % 10) + 1])

\* str.split(sep) for a one-character sep: the pieces between the separators,
\* the empty ones included.
PySplitOn(str, sep) ==
    LET RECURSIVE From(_, _, _)
        From(i, word, acc) ==
            IF i > Len(str) THEN Append(acc, word)
            ELSE IF str[i] = sep THEN From(i + 1, << >>, Append(acc, word))
            ELSE From(i + 1, Append(word, str[i]), acc)
    IN  From(1, << >>, << >>)

\* Counter()[k] += 1
CounterInc(c, k) ==
    IF k \in DOMAIN c THEN [c EXCEPT ![k] = @ + 1] ELSE c @@ (k :> 1)

EmptyDict == [k \in {} |-> 0]

\* '%s/%d' % (prefix, length)
FormatPrefix(prefix, length) == <<prefix, "/", length>>

\* --------------------------------------------------------- location lookup

\* The pickled AS -> country mapping loaded by MRTParser.__init__ : AS 1 is
\* delegated, AS 2 has an empty location, every other AS is unknown.
location_map == (<<"1">> :> "Brazil") @@ (<<"2">> :> "")

get_location(as_id) ==
    IF as_id \in DOMAIN location_map
    THEN (IF location_map[as_id] # "" THEN location_map[as_id] ELSE "ZZ")
    ELSE "ZZ"

\* ------------------------------------------------------ AS-path rebuilding

\* The rendering of the segments of an AS_PATH or AS4_PATH attribute.
RECURSIVE RenderSegments(_, _)
RenderSegments(segs, acc) ==
    IF Len(segs) = 0 THEN acc
    ELSE LET seg == segs[1] IN
         RenderSegments(Tail(segs),
            IF seg.type = "AS_SET"
            THEN Append(acc, <<"{">> \o PyJoin(<<",">>, seg.value) \o <<"}">>)
            ELSE IF seg.type = "AS_CONFED_SEQUENCE"
            THEN Append(acc \o << <<"(">> \o seg.value[1] >>
                            \o PySlice(seg.value, 1, -1),
                        seg.value[Len(seg.value)] \o <<")">>)
            ELSE IF seg.type = "AS_CONFED_SET"
            THEN Append(acc, <<"[">> \o PyJoin(<<",">>, seg.value) \o <<"]">>)
            ELSE acc \o seg.value)

_merge_as_path(as_path, as4_path) ==
    IF Len(as4_path) # 0
    THEN LET n == Len(as_path) - Len(as4_path)
         IN  PyJoin(<<" ">>, PySliceTo(as_path, n) \o as4_path)
    ELSE PyJoin(<<" ">>, as_path)

\* ------------------------------------------------- per-path statistics update

\* The mutable per-AS dictionary created for an AS seen for the first time.
NewAsDict(as_id) ==
    [location           |-> get_location(as_id),
     mid_path_count     |-> 0,
     end_path_count     |-> 0,
     path_sizes         |-> EmptyDict,
     announced_prefixes |-> {},
     neighbours         |-> {}]

\* The gap test looking for the wrong bracket.
IsGapTokenBracket(as_id) == PyStartsWith(as_id, "[")

\* The test that turns a path token into a gap.
IsGapToken(as_id) == PyStartsWith(as_id, "{")

\* First loop of _parse_data: the valid path (None for a gap) and the map
\* with the dictionaries of the newly seen ASes.
RECURSIVE BuildValidPath(_, _, _)
BuildValidPath(path, as_map, valid_path) ==
    IF Len(path) = 0 THEN [as_map |-> as_map, valid_path |-> valid_path]
    ELSE LET as_id == path[1] IN
         IF as_id \in DOMAIN as_map
         THEN BuildValidPath(Tail(path), as_map, Append(valid_path, as_id))
         ELSE IF IsGapToken(as_id)
         THEN BuildValidPath(Tail(path), as_map, Append(valid_path, None))
         ELSE BuildValidPath(Tail(path),
                             as_map @@ (as_id :> NewAsDict(as_id)),
                             Append(valid_path, as_id))

\* The neighbour addition made on one side only.
AddNeighboursOneWay(as_map, as_id, next_as_id) ==
    [as_map EXCEPT ![as_id].neighbours = @ \cup {next_as_id}]

\* The two neighbour additions of one consecutive pair.
AddNeighbours(as_map, as_id, next_as_id) ==
    LET m1 == [as_map EXCEPT ![as_id].neighbours = @ \cup {next_as_id}]
    IN  [m1 EXCEPT ![next_as_id].neighbours = @ \cup {as_id}]

\* The end credit given to the first hop only.
CreditHopFirstOnly(as_map, as_id, i, path_len) ==
    IF i = 0
    THEN [as_map EXCEPT ![as_id].end_path_count = @ + 1]
    ELSE [as_map EXCEPT ![as_id].mid_path_count = @ + 1]

\* The end/mid credit of the hop at (0-based) position i.
CreditHop(as_map, as_id, i, path_len) ==
    IF i = 0 \/ i = path_len - 1
    THEN [as_map EXCEPT ![as_id].end_path_count = @ + 1]
    ELSE [as_map EXCEPT ![as_id].mid_path_count = @ + 1]

\* Second loop of _parse_data, from (0-based) position i on.
RECURSIVE CreditPath(_, _, _)
CreditPath(path, i, as_map) ==
    IF i >= Len(path) THEN as_map
    ELSE LET as_id    == path[i + 1]
             path_len == Len(path)
         IN  IF as_id = None THEN CreditPath(path, i + 1, as_map)
             ELSE LET m1 == IF i < path_len - 1 /\ path[i + 2] # None
                            THEN AddNeighbours(as_map, as_id, path[i + 2])
                            ELSE as_map
                  IN  CreditPath(path, i + 1, CreditHop(m1, as_id, i, path_len))

\* The origin's record keyed by the hop count instead of the path length.
CreditOriginByHops(as_map, origin_as_id, path_len, prefix) ==
    [as_map EXCEPT
        ![origin_as_id].path_sizes = CounterInc(@, path_len),
        ![origin_as_id].announced_prefixes = @ \cup {prefix}]

\* The origin's path-size and prefix record.
CreditOrigin(as_map, origin_as_id, path_len, prefix) ==
    [as_map EXCEPT
        ![origin_as_id].path_sizes = CounterInc(@, path_len - 1),
        ![origin_as_id].announced_prefixes = @ \cup {prefix}]

\* The end of _parse_data, on the valid path and the map after the second
\* loop: path[-1] of an empty path raises IndexError.
ParseOrigin(self, prefix, path, as_map) ==
    IF Len(path) = 0
    THEN [self |-> [self EXCEPT !.as_map = as_map], exc |-> "IndexError"]
    ELSE [self |-> [self EXCEPT !.as_map =
                        IF path[Len(path)] # None
                        THEN CreditOrigin(as_map, path[Len(path)], Len(path), prefix)
                        ELSE as_map],
          exc  |-> ""]

\* _parse_data from its second loop on; b is the outcome of the first loop.
ParseValidPath(self, prefix, b) ==
    ParseOrigin(self, prefix, b.valid_path, CreditPath(b.valid_path, 0, b.as_map))

\* MRTParser._parse_data on the parser fields `self`: the fields after the
\* call and the exception it raised ("" for none).
_parse_data(self, prefix) ==
    ParseValidPath(self, prefix,
        BuildValidPath(PySplit(_merge_as_path(self.as_path, self.as4_path)),
                       self.as_map, << >>))

\* ------------------------------------------------------------ _parse_routes

\* A frame threads the parser fields and the first exception raised ("" for
\* none; after it nothing more executes), and counts the _parse_data calls
\* made, the peer lookups that succeeded and the lines printed.
Frame(self, exc, updates, lookups, printed) ==
    [self |-> self, exc |-> exc, updates |-> updates, lookups |-> lookups,
     printed |-> printed]

\* The frame after a call of _parse_data with outcome r.
AfterParseData(fr, r) ==
    Frame(r.self, r.exc, fr.updates + 1, fr.lookups, fr.printed)

CallParseData(fr, prefix) ==
    IF fr.exc # "" THEN fr
    ELSE AfterParseData(fr, _parse_data(fr.self, prefix))

\* `for _ in self._next_hop: self._parse_data(nlri)`, k next hops left.
RECURSIVE ForNextHop(_, _, _)
ForNextHop(fr, k, nlri) ==
    IF k = 0 \/ fr.exc # "" THEN fr
    ELSE ForNextHop(CallParseData(fr, nlri), k - 1, nlri)

\* How often the update runs for one announced prefix.
UpdatesPerPrefix(self) == Len(self.next_hop)

\* `for withdrawn in self._withdrawn: ...`
RECURSIVE ForWithdrawn(_, _)
ForWithdrawn(fr, withdrawn) ==
    IF Len(withdrawn) = 0 \/ fr.exc # "" THEN fr
    ELSE ForWithdrawn(
            IF fr.self.type = "BGP4MP"
            THEN CallParseData([fr EXCEPT !.self.flag = "W"], withdrawn[1])
            ELSE fr,
            Tail(withdrawn))

\* `for nlri in self._nlri: ...`
RECURSIVE ForNlri(_, _)
ForNlri(fr, nlri) ==
    IF Len(nlri) = 0 \/ fr.exc # "" THEN fr
    ELSE LET f1 == IF fr.self.type = "BGP4MP"
                   THEN [fr EXCEPT !.self.flag = "A"] ELSE fr
         IN  ForNlri(ForNextHop(f1, UpdatesPerPrefix(f1.self), nlri[1]),
                     Tail(nlri))

_parse_routes(fr) ==
    ForNlri(ForWithdrawn(fr, fr.self.withdrawn), fr.self.nlri)

\* ---------------------------------------------------------------- _bgp_attr

_bgp_attr(self, attr) ==
    IF attr.type = "NEXT_HOP"
    THEN [self EXCEPT !.next_hop = Append(@, attr.value)]
    ELSE IF attr.type = "AS_PATH"
    THEN [self EXCEPT !.as_path = RenderSegments(attr.segs, << >>)]
    ELSE IF attr.type = "MP_REACH_NLRI"
    THEN LET s1 == [self EXCEPT !.next_hop = attr.next_hop]
         IN  IF s1.type # "BGP4MP" THEN s1
             ELSE [s1 EXCEPT !.nlri = @ \o
                     [i \in 1..Len(attr.nlri) |->
                        FormatPrefix(attr.nlri[i].prefix, attr.nlri[i].length)]]
    ELSE IF attr.type = "MP_UNREACH_NLRI"
    THEN IF self.type # "BGP4MP" THEN self
         ELSE [self EXCEPT !.withdrawn = @ \o
                 [i \in 1..Len(attr.withdrawn_routes) |->
                    FormatPrefix(attr.withdrawn_routes[i].prefix,
                                 attr.withdrawn_routes[i].length)]]
    ELSE IF attr.type = "AS4_PATH"
    THEN [self EXCEPT !.as4_path = RenderSegments(attr.segs, << >>)]
    ELSE self

RECURSIVE ForAttr(_, _)
ForAttr(self, attrs) ==
    IF Len(attrs) = 0 THEN self
    ELSE ForAttr(_bgp_attr(self, attrs[1]), Tail(attrs))

\* ------------------------------------------------------------------- _td_v2

\* The module-level name `peer`: None, or the copied peer entries.
NoPeer == [none |-> TRUE, entries |-> << >>]
PeerTable(entries) == [none |-> FALSE, entries |-> entries]

\* peer[entry['peer_index']]: the exception of the subscription, "" for none.
PeerLookupExc(peer, peer_index) ==
    IF peer.none THEN "TypeError"
    ELSE IF peer_index >= Len(peer.entries) THEN "IndexError"
    ELSE ""

\* One RIB entry: the peer lookup, the attributes, the routes.  A frame also
\* counts the peer lookups that succeeded.
RibEntry(fr, peer, entry) ==
    IF fr.exc # "" THEN fr
    ELSE IF PeerLookupExc(peer, entry.peer_index) # ""
    THEN [fr EXCEPT !.exc = PeerLookupExc(peer, entry.peer_index)]
    ELSE _parse_routes(
            [fr EXCEPT
                !.lookups = @ + 1,
                !.self = ForAttr(
                    [fr.self EXCEPT
                        !.peer_ip  = peer.entries[entry.peer_index + 1].peer_ip,
                        !.peer_as  = peer.entries[entry.peer_index + 1].peer_as,
                        !.as_path  = << >>,
                        !.next_hop = << >>,
                        !.as4_path = << >>],
                    entry.path_attributes)])

RECURSIVE ForRibEntry(_, _, _)
ForRibEntry(fr, peer, rib_entries) ==
    IF Len(rib_entries) = 0 \/ fr.exc # "" THEN fr
    ELSE ForRibEntry(RibEntry(fr, peer, rib_entries[1]), peer, Tail(rib_entries))

RibSubtypes ==
    {"RIB_IPV4_UNICAST", "RIB_IPV4_MULTICAST", "RIB_IPV6_UNICAST", "RIB_IPV6_MULTICAST"}

\* The peer table that a peer-index-table record leaves in `peer`.
StorePeerTable(peer, m) == PeerTable(m.peer_entries)

\* MRTParser._td_v2 on a frame and the value of `peer`: both afterwards.
_td_v2(fr, peer, m) ==
    LET f1 == [fr EXCEPT !.self.type = "TABLE_DUMP2",
                         !.self.flag = "B",
                         !.self.ts   = m.timestamp]
    IN  IF m.subtype = "PEER_INDEX_TABLE"
        THEN [fr |-> f1, peer |-> StorePeerTable(peer, m)]
        ELSE IF m.subtype \in RibSubtypes
        THEN [fr |-> ForRibEntry(
                        [f1 EXCEPT !.self.nlri =
                            Append(@, FormatPrefix(m.prefix, m.length))],
                        peer, m.rib_entries),
              peer |-> peer]
        ELSE [fr |-> f1, peer |-> peer]

\* -------------------------------------------------- _freeze_map, AS objects

\* AS(...) : __post_init__ raises ValueError unless int(id) succeeds, and
\* stores str(int(id)).
AsRaises(as_id) == ~IsInt(as_id)

AS(as_id, d) ==
    [id                 |-> StrOfInt(as_id),
     location           |-> d.location,
     mid_path_count     |-> d.mid_path_count,
     end_path_count     |-> d.end_path_count,
     path_sizes         |-> {<<k, d.path_sizes[k]>> : k \in DOMAIN d.path_sizes},
     announced_prefixes |-> d.announced_prefixes,
     neighbours         |-> d.neighbours]

\* MRTParser._freeze_map: the frozen map, or the exception of the first AS
\* that cannot be constructed.
_freeze_map(self) ==
    IF \E as_id \in DOMAIN self.as_map : AsRaises(as_id)
    THEN [exc |-> "ValueError", as_map |-> EmptyDict]
    ELSE [exc |-> "",
          as_map |-> [as_id \in DOMAIN self.as_map |-> AS(as_id, self.as_map[as_id])]]

\* ------------------------------------------------------- the record streams

Seg(type, value) == [type |-> type, value |-> value]
Sequence(value) == Seg("AS_SEQUENCE", value)

Attr(type, value, segs, next_hop) ==
    [type |-> type, value |-> value, segs |-> segs, next_hop |-> next_hop,
     nlri |-> << >>, withdrawn_routes |-> << >>]
NextHop == Attr("NEXT_HOP", "192.0.2.254", << >>, << >>)
MpReach == Attr("MP_REACH_NLRI", "", << >>, <<"2001:db8::1", "fe80::1">>)
Origin  == Attr("ORIGIN", "IGP", << >>, << >>)
AsPath(segs)  == Attr("AS_PATH", "", segs, << >>)
As4Path(segs) == Attr("AS4_PATH", "", segs, << >>)

Entry(peer_index, path_attributes) ==
    [peer_index |-> peer_index, path_attributes |-> path_attributes]

A1 == <<"1">>
A2 == <<"2">>
A3 == <<"3">>

\* The RIB entries of the streams: plain, prepended and one-hop paths, an
\* AS_SET in the middle and at the origin, the confederation renderings, AS4
\* paths shorter and longer than the AS_PATH, no AS_PATH, and no, one or two
\* next hops.
EPlain    == Entry(0, <<Origin, AsPath(<<Sequence(<<A1, A2, A3>>)>>), NextHop>>)
EPrepend  == Entry(0, <<AsPath(<<Sequence(<<A2, A2, A1>>)>>), NextHop>>)
EOneHop   == Entry(1, <<AsPath(<<Sequence(<<A3>>)>>), NextHop>>)
EGapMid   == Entry(0, <<AsPath(<<Sequence(<<A1>>), Seg("AS_SET", <<A2, A3>>),
                                 Sequence(<<A3>>)>>), NextHop>>)
EGapEnd   == Entry(0, <<AsPath(<<Sequence(<<A2, A1>>), Seg("AS_SET", <<A3>>)>>),
                        NextHop>>)
EConfSet  == Entry(0, <<AsPath(<<Seg("AS_CONFED_SET", <<A1, A2>>),
                                 Sequence(<<A3>>)>>), NextHop>>)
EConfSeq  == Entry(0, <<AsPath(<<Seg("AS_CONFED_SEQUENCE", <<A1, A2>>),
                                 Sequence(<<A3>>)>>), NextHop>>)
EAs4      == Entry(0, <<AsPath(<<Sequence(<<A1, A2, A2>>)>>),
                        As4Path(<<Sequence(<<A3>>)>>), NextHop>>)
EAs4Long  == Entry(0, <<AsPath(<<Sequence(<<A1, A2>>)>>),
                        As4Path(<<Sequence(<<A2, A3, A3>>)>>), NextHop>>)
ENoPath   == Entry(0, <<Origin, NextHop>>)
ENoHop    == Entry(0, <<AsPath(<<Sequence(<<A1, A2>>)>>)>>)
ETwoHops  == Entry(1, <<AsPath(<<Sequence(<<A2, A1>>)>>), MpReach>>)

Record(err, type, subtype, peer_entries, prefix, length, rib_entries) ==
    [err |-> err, type |-> type, subtype |-> subtype, timestamp |-> 1,
     peer_entries |-> peer_entries, prefix |-> prefix, length |-> length,
     rib_entries |-> rib_entries]

PeerEntry(peer_ip, peer_as) == [peer_ip |-> peer_ip, peer_as |-> peer_as]

Rib4(rib_entries) ==
    Record(FALSE, "TABLE_DUMP_V2", "RIB_IPV4_UNICAST", << >>, "10.0.0.0", 8, rib_entries)
Rib6(rib_entries) ==
    Record(FALSE, "TABLE_DUMP_V2", "RIB_IPV6_UNICAST", << >>, "2001:db8::", 32, rib_entries)

ErrRecords == {Record(TRUE, "", "", << >>, "", 0, << >>)}

UnsupportedRecords ==
    {Record(FALSE, "BGP4MP", "BGP4MP_MESSAGE", << >>, "", 0, << >>)}

PeerIndexTables ==
    {Record(FALSE, "TABLE_DUMP_V2", "PEER_INDEX_TABLE", entries, "", 0, << >>) :
        entries \in {<<PeerEntry("192.0.2.1", "64500")>>,
                     <<PeerEntry("198.51.100.1", "64501"),
                       PeerEntry("198.51.100.2", "64502")>>}}

RibRecords ==
    {Rib4(<<e>>) : e \in {EPlain, EPrepend, EGapMid, EConfSet, EAs4, EAs4Long,
                          ENoPath, ENoHop}}
    \cup {Rib6(<<e>>) : e \in {EOneHop, EGapEnd, EConfSeq, ETwoHops}}
    \cup {Rib4(<<EPlain, EOneHop>>), Rib6(<<ETwoHops, EGapEnd>>)}

OtherTableDumpRecords ==
    {Record(FALSE, "TABLE_DUMP_V2", "GEO_PEER_TABLE", << >>, "", 0, << >>)}

\* -------------------------------------------------------------------- state

VARIABLES
    peer,    \* the module-level name `peer`, shared by every parser instance
    parser,  \* parser[p]: the fields of MRTParser instance p
    run,     \* run[p]: the import_bz2 call of instance p
    alone,   \* alone[p]: instance p on the same records with a `peer` of its own
    machine, \* the Machine instance: dataset and train_data
    call,    \* the last call of Machine.train or Machine.predict and its outcome
    score,   \* one property history, its statistics and the scoring of a value
    codec,   \* one AS construction and its trip through export and import
    merge    \* three profiles of the mutable revision and their merges

\* The variables of the parser instances.
pvars == <<peer, parser, run, alone>>

\* The variables of the Machine, of the statistics, of the file formats and of
\* the merges.
mvars == <<machine, call, score, codec, merge>>

vars == <<peer, parser, run, alone, machine, call, score, codec, merge>>

\* Machine.__init__
NewMachine == [dataset |-> << >>, train_data |-> EmptyDict]

\* No call of the Machine yet.
NoCall ==
    [op |-> "", snapshots |-> << >>, distinct |-> {}, save |-> FALSE, exc |-> "",
     at |-> << >>, predictions |-> EmptyDict]

\* No history under study.
NoScore ==
    [phase |-> "", prty |-> "", history |-> << >>, value |-> <<0, 1>>,
     places |-> << >>, place |-> "", stats |-> << >>,
     warning_level |-> 0, behaviour |-> 0]

\* No constructor, export or import called yet.
NoCodec ==
    [op |-> "", as_id |-> << >>, exc |-> "", made |-> << >>,
     as_map |-> EmptyDict, doc |-> << >>, out |-> EmptyDict]

\* No profile made and nothing merged yet.
NoMerge ==
    [a |-> << >>, b |-> << >>, c |-> << >>, exc |-> "",
     out |-> [e \in {"a+=b", "b+=a", "(a+=b)+=c", "a+=(b+=c)"} |-> << >>]]

\* A ceiling above every message count: the default msg_limit, inf.
Inf == MaxRecords + 1

\* The msg_limit arguments of the SnapShot constructions.
MsgLimits == {0, 1, Inf}

\* MRTParser.__init__
NewParser ==
    [as_map |-> EmptyDict, type |-> "", flag |-> "", peer_ip |-> "", ts |-> 0,
     peer_as |-> 0, nlri |-> << >>, withdrawn |-> << >>, as_path |-> << >>,
     next_hop |-> << >>, as4_path |-> << >>]

\* The frame of import_bz2 at its first record.
NewRun(msg_limit) ==
    [status |-> "running", msg_limit |-> msg_limit, msg_count |-> 0, pos |-> 0,
     m |-> Record(FALSE, "", "", << >>, "", 0, << >>), exc |-> "",
     result |-> EmptyDict, updates |-> 0, lookups |-> 0, printed |-> 0]

Init ==
    /\ peer = NoPeer
    /\ parser = [p \in Parsers |-> NewParser]
    /\ run \in [Parsers -> {NewRun(l) : l \in MsgLimits}]
    /\ alone = [p \in Parsers |-> [self |-> NewParser, run |-> run[p], peer |-> NoPeer]]
    /\ machine = NewMachine
    /\ call = NoCall
    /\ score = NoScore
    /\ codec = NoCodec
    /\ merge = NoMerge

\* ---------------------------------------------------------------- import_bz2

\* The error flag never looked at.
IsErrRecordUnchecked(m) == FALSE

\* `if m.err: continue`
IsErrRecord(m) == m.err

\* The unsupported record type raised instead of printed.
UnsupportedTypeRaises(fr) == [fr EXCEPT !.exc = "NotImplementedError"]

\* The branch of a record whose type is not TABLE_DUMP_V2: one line printed.
UnsupportedType(fr) == [fr EXCEPT !.printed = @ + 1]

\* The frame of import_bz2 once _freeze_map has returned or raised (fz).
Returned(rn, fz) ==
    [rn EXCEPT !.status = IF fz.exc = "" THEN "done" ELSE "failed",
               !.exc    = fz.exc,
               !.result = fz.as_map]

\* `return self._freeze_map()`
Return(self, rn) == Returned(rn, _freeze_map(self))

\* `self._nlri = list()` and the branch on the record type.
Dispatch(fr, pr, m) ==
    IF m.type = "TABLE_DUMP_V2" THEN _td_v2(fr, pr, m)
    ELSE [fr |-> UnsupportedType(fr), peer |-> pr]

\* `msg_count += 1` and the ceiling test; rm is the frame with the new count.
Counted(self, rm, pr) ==
    [self |-> self,
     run  |-> IF rm.msg_count >= rm.msg_limit THEN Return(self, rm) ELSE rm,
     peer |-> pr]

\* The rest of the iteration after the record's branch with outcome r: an
\* exception leaves import_bz2, otherwise the message is counted.
AfterRecord(rd, r) ==
    IF r.fr.exc # ""
    THEN [self |-> r.fr.self,
          run  |-> [rd EXCEPT !.updates = r.fr.updates, !.lookups = r.fr.lookups,
                              !.printed = r.fr.printed,
                              !.status = "failed", !.exc = r.fr.exc],
          peer |-> r.peer]
    ELSE Counted(r.fr.self,
                 [rd EXCEPT !.updates = r.fr.updates, !.lookups = r.fr.lookups,
                            !.printed = r.fr.printed, !.msg_count = @ + 1],
                 r.peer)

\* One iteration of the loop of import_bz2 on record m: the parser fields, the
\* frame of import_bz2 and `peer` afterwards.
ImportRecord(self, rn, pr, m) ==
    IF IsErrRecord(m)
    THEN [self |-> self, run |-> [rn EXCEPT !.pos = @ + 1, !.m = m], peer |-> pr]
    ELSE AfterRecord([rn EXCEPT !.pos = @ + 1, !.m = m],
                     Dispatch(Frame([self EXCEPT !.nlri = << >>], "", rn.updates,
                                    rn.lookups, rn.printed),
                              pr, m))

\* The same iteration of the instance that runs alone.
AloneRecord(a, m) ==
    IF a.run.status # "running" THEN a
    ELSE ImportRecord(a.self, a.run, a.peer, m)

RecordsRead == run[1].pos + run[2].pos

\* The state of instance p and `peer` after an iteration with outcome r.
Assign(p, r) ==
    /\ parser' = [parser EXCEPT ![p] = r.self]
    /\ run'    = [run EXCEPT ![p] = r.run]
    /\ peer'   = r.peer

\* Instance p reads record m from its stream.
Read(p, m) ==
    /\ run[p].status = "running"
    /\ RecordsRead < MaxRecords
    /\ Assign(p, ImportRecord(parser[p], run[p], peer, m))
    /\ alone' = [alone EXCEPT ![p] = AloneRecord(@, m)]
    /\ UNCHANGED mvars

ReadErr(p)            == \E m \in ErrRecords : Read(p, m)
ReadUnsupported(p)    == \E m \in UnsupportedRecords : Read(p, m)
ReadPeerIndexTable(p) == \E m \in PeerIndexTables : Read(p, m)
ReadRib(p)            == \E m \in RibRecords : Read(p, m)
ReadOtherTableDump(p) == \E m \in OtherTableDumpRecords : Read(p, m)

\* The stream of instance p is exhausted: the loop ends and the map is frozen.
EndOfStream(p) ==
    /\ run[p].status = "running"
    /\ run' = [run EXCEPT ![p] = Return(parser[p], @)]
    /\ alone' = [alone EXCEPT ![p] =
                    IF @.run.status = "running"
                    THEN [@ EXCEPT !.run = Return(alone[p].self, alone[p].run)]
                    ELSE @]
    /\ UNCHANGED <<peer, parser>>
    /\ UNCHANGED mvars

Next ==
    \E p \in Parsers :
        \/ ReadErr(p)
        \/ ReadUnsupported(p)
        \/ ReadPeerIndexTable(p)
        \/ ReadRib(p)
        \/ ReadOtherTableDump(p)
        \/ EndOfStream(p)

Spec == Init /\ [][Next]_vars

TypeOK ==
    /\ peer.none \in BOOLEAN
    /\ \A p \in Parsers : run[p].status \in {"running", "done", "failed"}

\* ================================================================== Machine
\* src/src/bgp_anomaly_detection/machine.py

\* --------------------------------------------------------- float64 numbers

\* A float64 is held as the fraction <<n, d>> in lowest terms with d > 0; the
\* values the statistics meet (small counts, their means and quartiles) and
\* the comparisons on them are exact in float64 arithmetic as well.  Where the
\* rounding of a quotient matters, Float64 gives the float64 of the fraction.
Rat(n, d) ==
    LET Abs(x) == IF x < 0 THEN -x ELSE x
        RECURSIVE Gcd(_, _)
        Gcd(a, b) == IF b = 0 THEN a ELSE Gcd(b, a % b)
        Reduced(p, q, g) == <<p \div g, q \div g>>
    IN  IF d < 0 THEN Reduced(-n, -d, Gcd(Abs(n), Abs(d)))
        ELSE Reduced(n, d, Gcd(Abs(n), Abs(d)))

\* np.float64(v) of an int v
Float(v) == <<v, 1>>

RAdd(a, b) == Rat(a[1] * b[2] + b[1] * a[2], a[2] * b[2])
RSub(a, b) == Rat(a[1] * b[2] - b[1] * a[2], a[2] * b[2])
RMul(a, b) == Rat(a[1] * b[1], a[2] * b[2])
RDiv(a, b) == Rat(a[1] * b[2], a[2] * b[1])
RLt(a, b)  == a[1] * b[2] < b[1] * a[2]
RMin(a, b) == IF RLt(b, a) THEN b ELSE a
RMax(a, b) == IF RLt(a, b) THEN b ELSE a

\* np.sum
RECURSIVE RSum(_)
RSum(h) == IF Len(h) = 0 THEN Float(0) ELSE RAdd(h[1], RSum(Tail(h)))

\* np.mean
Mean(h) == RDiv(RSum(h), Float(Len(h)))

\* The k-th central moment: np.mean((h - mean) ** k), k = 2 or 3.
Moment(h, mean, k) ==
    LET Power(x) == IF k = 2 THEN RMul(x, x) ELSE RMul(x, RMul(x, x))
    IN  Mean([i \in 1..Len(h) |-> Power(RSub(h[i], mean))])

\* np.percentile(h, q), linear interpolation between the elements of h in
\* ascending order around the fractional index (n - 1) * q / 100 from 0.
Percentile(h, q) ==
    LET Lerp(sorted, lo, pos) ==
            IF lo + 2 > Len(sorted) THEN sorted[lo + 1]
            ELSE RAdd(sorted[lo + 1],
                      RMul(RSub(sorted[lo + 2], sorted[lo + 1]),
                           RSub(pos, Float(lo))))
        At(sorted, pos) == Lerp(sorted, pos[1] \div pos[2], pos)
    IN  At(SortSeq(h, RLt), Rat((Len(h) - 1) * q, 100))

\* np.polyfit(x, h, 1)[0] for x = np.arange(len(h)): the least-squares slope
\*   (n * sum(x * h) - sum(x) * sum(h)) / (n * sum(x * x) - sum(x) ** 2).
Polyfit(h) ==
    LET Fit(x) ==
            RDiv(RSub(RMul(Float(Len(h)),
                           RSum([i \in 1..Len(h) |-> RMul(x[i], h[i])])),
                      RMul(RSum(x), RSum(h))),
                 RSub(RMul(Float(Len(h)),
                           RSum([i \in 1..Len(h) |-> RMul(x[i], x[i])])),
                      RMul(RSum(x), RSum(x))))
    IN  Fit([i \in 1..Len(h) |-> Float(i - 1)])

\* scipy.stats.skew(h) = m3 / m2 ** 1.5 is held as the pair <<m3, m2>> of the
\* central moments, and the constant np.float64(c) as <<c, 1>>.
Skew(h, mean) == <<Moment(h, mean, 3), Moment(h, mean, 2)>>
SkewConst(c)  == <<Float(c), Float(1)>>

\* np.std(h) is held by its square, the variance: std_d > 0 iff variance > 0.
Variance(h) == Moment(h, Mean(h), 2)

\* The float64 nearest to the fraction q >= 0, which is what int / int gives
\* (true division is correctly rounded, ties to even): 0, or the mantissa
\* hi * 2^27 + lo in [2^52, 2^53) with the value mantissa * 2^(exp - 52).
Float64(q) ==
    LET RECURSIVE Norm(_, _, _)
        \* n / d scaled into [1, 2) and the exponent of the scaling
        Norm(n, d, e) ==
            IF n < d THEN Norm(2 * n, d, e - 1)
            ELSE IF n >= 2 * d THEN Norm(n, 2 * d, e + 1)
            ELSE <<n, d, e>>
        RECURSIVE Divide(_, _, _, _)
        \* k more bits of the quotient after acc, by long division
        Divide(r, d, k, acc) ==
            IF k = 0 THEN <<acc, r>>
            ELSE IF 2 * r >= d THEN Divide(2 * r - d, d, k - 1, 2 * acc + 1)
            ELSE Divide(2 * r, d, k - 1, 2 * acc)
        Carried(hi, lo, e) ==
            IF lo < 134217728 THEN [hi |-> hi, lo |-> lo, exp |-> e]
            ELSE IF hi + 1 < 67108864 THEN [hi |-> hi + 1, lo |-> 0, exp |-> e]
            ELSE [hi |-> 33554432, lo |-> 0, exp |-> e + 1]
        Rounded(h, l, d, e) ==
            IF 2 * l[2] > d \/ (2 * l[2] = d /\ l[1] % 2 = 1)
            THEN Carried(h[1], l[1] + 1, e)
            ELSE Carried(h[1], l[1], e)
        Quotient(s) ==
            Rounded(Divide(s[1] - s[2], s[2], 25, 1),
                    Divide(Divide(s[1] - s[2], s[2], 25, 1)[2], s[2], 27, 0),
                    s[2], s[3])
    IN  IF q[1] = 0 THEN [hi |-> 0, lo |-> 0, exp |-> 0]
        ELSE Quotient(Norm(q[1], q[2], 0))

\* ------------------------------------------------ the properties of an AS

\* ip_address(prefix.split('/')[0]) is an IPv4Address; the prefixes of an AS
\* map are well-formed, so ip_address does not raise.
IsIPv4(prefix) == prefix[1] \in {"10.0.0.0", "192.0.2.0"}

\* sum(f(e) for e in s) over a set s, f given as a function on s.
RECURSIVE SumOver(_, _)
SumOver(s, f) ==
    IF s = {} THEN 0
    ELSE f[CHOOSE e \in s : TRUE]
         + SumOver(s \ {CHOOSE e \in s : TRUE}, f)

\* AS.times_seen
times_seen(a) == a.mid_path_count + a.end_path_count

\* The mean over the entries of path_sizes instead of over the paths.
mean_path_sizeUnweighted(a) ==
    LET total_paths == SumOver(a.path_sizes, [sc \in a.path_sizes |-> sc[2]])
        weighted_sum ==
            SumOver(a.path_sizes, [sc \in a.path_sizes |-> sc[1] * sc[2]])
    IN  IF total_paths = 0 THEN Float(0)
        ELSE Rat(weighted_sum, Cardinality(a.path_sizes))

\* AS.mean_path_size
mean_path_size(a) ==
    LET total_paths == SumOver(a.path_sizes, [sc \in a.path_sizes |-> sc[2]])
        weighted_sum ==
            SumOver(a.path_sizes, [sc \in a.path_sizes |-> sc[1] * sc[2]])
    IN  IF total_paths = 0 THEN Float(0) ELSE Rat(weighted_sum, total_paths)

\* AS.ipv4_count, AS.ipv6_count, AS.total_prefixes, AS.total_neighbours
ipv4_count(a) == Cardinality({p \in a.announced_prefixes : IsIPv4(p)})
ipv6_count(a) == Cardinality({p \in a.announced_prefixes : ~IsIPv4(p)})
total_prefixes(a) == Cardinality(a.announced_prefixes)
total_neighbours(a) == Cardinality(a.neighbours)

\* as_property_names: the names of getmembers(AS, isdatadescriptor), i.e. the
\* slots of the dataclass and its properties in name order, that are not
\* among the special ones.
PropertyNames(special) ==
    SelectSeq(<<"announced_prefixes", "end_path_count", "id", "ipv4_count",
                "ipv6_count", "location", "mean_path_size", "mid_path_count",
                "neighbours", "path_sizes", "times_seen", "total_neighbours",
                "total_prefixes">>,
              LAMBDA prty : prty \notin special)

\* as_property_names of Machine.train and of Machine.predict
TrainPropertyNames == PropertyNames({"id", "announced_prefixes", "neighbours"})

PredictPropertyNames ==
    PropertyNames({"id", "announced_prefixes", "neighbours", "path_sizes"})

\* getattr(as_instance, prty), the numeric properties as float64
GetAttr(a, prty) ==
    CASE prty = "location"         -> a.location
      [] prty = "path_sizes"       -> a.path_sizes
      [] prty = "end_path_count"   -> Float(a.end_path_count)
      [] prty = "mid_path_count"   -> Float(a.mid_path_count)
      [] prty = "times_seen"       -> Float(times_seen(a))
      [] prty = "ipv4_count"       -> Float(ipv4_count(a))
      [] prty = "ipv6_count"       -> Float(ipv6_count(a))
      [] prty = "total_prefixes"   -> Float(total_prefixes(a))
      [] prty = "total_neighbours" -> Float(total_neighbours(a))
      [] prty = "mean_path_size"   -> mean_path_size(a)

\* ------------------------------------------------------------ Machine.train

\* SnapShot: a frozen dataclass that defines __eq__ (by timestamp) and no
\* __hash__, so the dataclass generates __hash__ over all its fields; the hash
\* is held by the tuple of the fields (unequal tuples, unequal hashes).
SnapShotHash(s) == <<s.file_path, s.timestamp, s.as_map, s.msg_limit>>

\* SnapShot.__eq__
SnapShotEq(a, b) == a.timestamp = b.timestamp

\* set(snapshots) of a list: an element is dropped when an earlier one has its
\* hash and is equal to it.
PySet(snapshots) ==
    {snapshots[i] : i \in {k \in 1..Len(snapshots) :
        ~\E j \in 1..(k - 1) :
            /\ SnapShotHash(snapshots[j]) = SnapShotHash(snapshots[k])
            /\ SnapShotEq(snapshots[j], snapshots[k])}}

\* sorted(snapshots): SnapShot defines no __lt__ (the dataclass is not
\* order=True), so the first comparison raises TypeError; zero or one element
\* is sorted without a comparison.
Sorted(distinct) ==
    IF Cardinality(distinct) > 1 THEN [exc |-> "TypeError", list |-> << >>]
    ELSE IF distinct = {} THEN [exc |-> "", list |-> << >>]
    ELSE [exc |-> "", list |-> <<CHOOSE s \in distinct : TRUE>>]

\* The elements of a sequence.
Range(seq) == {seq[i] : i \in 1..Len(seq)}

\* `for snapshot in self.dataset`: as_history[as_id] is created when as_id is
\* first met, and every property of every AS of the snapshot is appended.
RECURSIVE ForSnapshot(_, _)
ForSnapshot(dataset, as_history) ==
    LET NewHistory ==
            [history |-> [prty \in Range(TrainPropertyNames) |-> << >>],
             announced_prefixes |-> {}, neighbours |-> {}]
        AppendHistory(h, as_instance) ==
            [history |-> [prty \in Range(TrainPropertyNames) |->
                             Append(h.history[prty], GetAttr(as_instance, prty))],
             announced_prefixes |->
                 h.announced_prefixes \cup as_instance.announced_prefixes,
             neighbours |-> h.neighbours \cup as_instance.neighbours]
        HistoryOf(as_id) ==
            IF as_id \in DOMAIN as_history THEN as_history[as_id] ELSE NewHistory
        UpdateHistory(as_map) ==
            [as_id \in DOMAIN as_history \cup DOMAIN as_map |->
                IF as_id \in DOMAIN as_map
                THEN AppendHistory(HistoryOf(as_id), as_map[as_id])
                ELSE as_history[as_id]]
    IN  IF dataset = << >> THEN as_history
        ELSE ForSnapshot(Tail(dataset), UpdateHistory(Head(dataset).as_map))

\* The statistics tuple of one property.
StatsTuple(min_, max_, mean, std_d, skewness, slope, location) ==
    [min_ |-> min_, max_ |-> max_, mean |-> mean, std_d |-> std_d,
     skewness |-> skewness, slope |-> slope, location |-> location]

\* The tuple of np.float64(-1) with a mode or the empty string.
NoStats(location) ==
    StatsTuple(Float(-1), Float(-1), Float(-1), Float(-1), SkewConst(-1),
               Float(-1), location)

\* Counter(prty_history).most_common(1)[0][0]: the most frequent value, the
\* first met among equally frequent ones.
Mode(h) ==
    LET Count(v) == Cardinality({i \in 1..Len(h) : h[i] = v})
    IN  h[CHOOSE i \in 1..Len(h) :
            /\ \A j \in 1..Len(h) : Count(h[j]) <= Count(h[i])
            /\ \A j \in 1..(i - 1) : Count(h[j]) < Count(h[i])]

\* The elements of a set in some order.
RECURSIVE SetToSeq(_)
SetToSeq(s) ==
    IF s = {} THEN << >>
    ELSE <<CHOOSE e \in s : TRUE>> \o SetToSeq(s \ {CHOOSE e \in s : TRUE})

\* counters.extend(size for _ in range(qnty)) for every pair of every counter
\* of a path_sizes history; the pairs of a frozenset come in the order the
\* frozenset yields them, which is held as ascending order.
RECURSIVE Counters(_)
Counters(prty_history) ==
    LET PairLt(a, b) == a[1] < b[1] \/ (a[1] = b[1] /\ a[2] < b[2])
        Repeat(size, qnty) == [i \in 1..qnty |-> Float(size)]
        RECURSIVE ExtendPairs(_)
        ExtendPairs(pairs) ==
            IF pairs = << >> THEN << >>
            ELSE Repeat(Head(pairs)[1], Head(pairs)[2]) \o ExtendPairs(Tail(pairs))
    IN  IF prty_history = << >> THEN << >>
        ELSE ExtendPairs(SortSeq(SetToSeq(Head(prty_history)), PairLt))
                 \o Counters(Tail(prty_history))

\* The skewness without the test of std_d: 0 / 0 for a constant history.
SkewnessUnguarded(h, mean, std_d) == Skew(h, mean)

\* The two branches on `std_d > 0`.
Skewness(h, mean, std_d) ==
    IF RLt(Float(0), std_d) THEN Skew(h, mean) ELSE SkewConst(0)

Slope(h, std_d) == IF RLt(Float(0), std_d) THEN Polyfit(h) ELSE Float(0)

\* The statistics with the fences themselves as min_ and max_.
NumericStatsUnclipped(h) ==
    LET OneAndHalf == <<3, 2>>
        Fenced(st_qt, rd_qt, mean, std_d) ==
            StatsTuple(RSub(st_qt, RMul(OneAndHalf, RSub(rd_qt, st_qt))),
                       RAdd(rd_qt, RMul(OneAndHalf, RSub(rd_qt, st_qt))),
                       mean, std_d, Skewness(h, mean, std_d), Slope(h, std_d), "")
    IN  Fenced(Percentile(h, 25), Percentile(h, 75), Mean(h), Variance(h))

\* Range, mean, standard deviation, skewness and slope of a history: min_ and
\* max_ are the fences from the quartiles and dq = rd_qt - st_qt, kept inside
\* np.min and np.max.
NumericStats(h) ==
    LET RECURSIVE NpMin(_)
        NpMin(g) == IF Len(g) = 1 THEN g[1] ELSE RMin(g[1], NpMin(Tail(g)))
        RECURSIVE NpMax(_)
        NpMax(g) == IF Len(g) = 1 THEN g[1] ELSE RMax(g[1], NpMax(Tail(g)))
        OneAndHalf == <<3, 2>>
        FenceMin(st_qt, dq) == RMax(NpMin(h), RSub(st_qt, RMul(OneAndHalf, dq)))
        FenceMax(rd_qt, dq) == RMin(NpMax(h), RAdd(rd_qt, RMul(OneAndHalf, dq)))
        Fenced(st_qt, rd_qt, mean, std_d) ==
            StatsTuple(FenceMin(st_qt, RSub(rd_qt, st_qt)),
                       FenceMax(rd_qt, RSub(rd_qt, st_qt)),
                       mean, std_d, Skewness(h, mean, std_d), Slope(h, std_d), "")
    IN  Fenced(Percentile(h, 25), Percentile(h, 75), Mean(h), Variance(h))

\* The statistics of one property from its history.
PropertyStats(prty, prty_history) ==
    LET PathSizesStats(counters) ==
            IF counters = << >> THEN NoStats("") ELSE NumericStats(counters)
    IN  IF prty = "location" THEN NoStats(Mode(prty_history))
        ELSE IF prty = "path_sizes" THEN PathSizesStats(Counters(prty_history))
        ELSE NumericStats(prty_history)

\* self.train_data[as_id] = ... for one entry of as_history
TrainEntry(data) ==
    [stats |-> [prty \in Range(TrainPropertyNames) |->
                   PropertyStats(prty, data.history[prty])],
     announced_prefixes |-> data.announced_prefixes,
     neighbours |-> data.neighbours]

\* Machine.train(snapshots) for a list of snapshots: the Machine afterwards
\* and the exception that left the call, if any. The second loop gives every
\* id of as_history a new entry; the other entries of train_data stay.
Train(self, snapshots) ==
    LET StoreTrainData(as_history) ==
            [as_id \in DOMAIN self.train_data \cup DOMAIN as_history |->
                IF as_id \in DOMAIN as_history THEN TrainEntry(as_history[as_id])
                ELSE self.train_data[as_id]]
        TrainSorted(sorted) ==
            IF sorted.exc # "" THEN [self |-> self, exc |-> sorted.exc]
            ELSE [self |-> [dataset    |-> sorted.list,
                            train_data |->
                                StoreTrainData(ForSnapshot(sorted.list, EmptyDict))],
                  exc  |-> ""]
    IN  TrainSorted(Sorted(PySet(snapshots)))

\* ---------------------------------------------------------- Machine.predict

\* The range test with the weight of the tail test.
RangeWarningHeavy(value, stats) ==
    IF RLt(value, stats.min_) \/ RLt(stats.max_, value) THEN 2 ELSE 0

\* `value_to_validate < min_ or value_to_validate > max_`
RangeWarning(value, stats) ==
    IF RLt(value, stats.min_) \/ RLt(stats.max_, value) THEN 1 ELSE 0

\* `std_d > 0` and the probability of the z-score in a 5% tail.
\* norm.cdf(z) < 0.05 for z = (value - mean) / std_d, i.e. z < -1.6448536...:
\* value < mean and (value - mean)^2 > 2.7055434... * variance; the quantile's
\* square is irrational and no fraction of small counts lies between it and
\* its four-digit truncation, so the comparison is the one the code makes.
TailWarning(value, stats) ==
    LET TailSquare == <<27055, 10000>>
        BeyondTail ==
            RLt(RMul(TailSquare, stats.std_d),
                RMul(RSub(value, stats.mean), RSub(value, stats.mean)))
        CdfBelow005 == RLt(value, stats.mean) /\ BeyondTail
        CdfAbove095 == RLt(stats.mean, value) /\ BeyondTail
    IN  IF RLt(Float(0), stats.std_d) /\ (CdfBelow005 \/ CdfAbove095)
        THEN 2 ELSE 0

\* The branches on the slope with the threshold itself counted as a trend.
BehaviourInclusive(slope) ==
    LET Threshold == <<1, 10>>
    IN  IF ~RLt(slope, Threshold) THEN 1
        ELSE IF ~RLt(RSub(Float(0), Threshold), slope) THEN -1
        ELSE 0

\* threshold = 0.1 and the three branches on the slope
Behaviour(slope) ==
    LET Threshold == <<1, 10>>
    IN  IF RLt(Threshold, slope) THEN 1
        ELSE IF RLt(slope, RSub(Float(0), Threshold)) THEN -1
        ELSE 0

\* predictions[as_id][prty] after the body of `for prty in as_property_names`.
PredictProperty(prty, value, stats) ==
    IF prty = "location"
    THEN [warning_level |-> IF value # stats.location THEN 2 ELSE 0,
          behaviour     |-> 0]
    ELSE [warning_level |-> RangeWarning(value, stats) + TailWarning(value, stats),
          behaviour     |-> Behaviour(stats.slope)]

\* predictions[as_id] = None
NoData == [none |-> TRUE, props |-> EmptyDict]

\* The lookup without the membership test: every id is taken for a trained one.
InTrainDataUnchecked(train_data, as_id) == TRUE

\* `as_id not in self.train_data` is false.
InTrainData(train_data, as_id) == as_id \in DOMAIN train_data

\* One iteration of `for as_id, as_instance in snapshot.as_map.items()`: the
\* entry of predictions, or the KeyError of self.train_data[as_id].
PredictAS(train_data, as_id, as_instance) ==
    IF ~InTrainData(train_data, as_id) THEN [exc |-> "", entry |-> NoData]
    ELSE IF as_id \notin DOMAIN train_data THEN [exc |-> "KeyError", entry |-> NoData]
    ELSE [exc   |-> "",
          entry |-> [none  |-> FALSE,
                     props |-> [prty \in Range(PredictPropertyNames) |->
                                   PredictProperty(prty, GetAttr(as_instance, prty),
                                       train_data[as_id].stats[prty])]]]

\* Machine._save_predictions, up to the first exception. Every id of the
\* snapshot is a key of predict, so the "No data" branch is never taken:
\* iterating a None entry raises TypeError, and predict[as_id][metric]["real"]
\* raises KeyError since an entry holds warning_level and behaviour only.
_save_predictions(as_map, predict) ==
    LET RECURSIVE SaveFrom(_)
        SaveFrom(items) ==
            IF items = << >> THEN [exc |-> "", at |-> << >>]
            ELSE IF Head(items) \notin DOMAIN predict THEN SaveFrom(Tail(items))
            ELSE IF predict[Head(items)].none
                 THEN [exc |-> "TypeError", at |-> Head(items)]
            ELSE IF DOMAIN predict[Head(items)].props = {}
                 THEN SaveFrom(Tail(items))
            ELSE [exc |-> "KeyError", at |-> Head(items)]
    IN  SaveFrom(SetToSeq(DOMAIN as_map))

\* Machine.predict(snapshot, save): the returned predictions, or the exception
\* and the AS at which it was raised. The items of snapshot.as_map come in the
\* insertion order of the map, which is held as one fixed order of the keys.
Predict(self, snapshot, save) ==
    LET RECURSIVE ForItem(_, _)
        Step(items, predictions, p) ==
            IF p.exc # ""
            THEN [exc |-> p.exc, at |-> Head(items), predictions |-> predictions]
            ELSE ForItem(Tail(items), predictions @@ (Head(items) :> p.entry))
        ForItem(items, predictions) ==
            IF items = << >>
            THEN [exc |-> "", at |-> << >>, predictions |-> predictions]
            ELSE Step(items, predictions,
                      PredictAS(self.train_data, Head(items),
                                snapshot.as_map[Head(items)]))
        Saved(r, sv) ==
            IF sv.exc # ""
            THEN [exc |-> sv.exc, at |-> sv.at, predictions |-> EmptyDict]
            ELSE r
        AfterLoop(r) ==
            IF r.exc # "" THEN [exc |-> r.exc, at |-> r.at, predictions |-> EmptyDict]
            ELSE IF save
                 THEN Saved(r, _save_predictions(snapshot.as_map, r.predictions))
            ELSE r
    IN  AfterLoop(ForItem(SetToSeq(DOMAIN snapshot.as_map), EmptyDict))

\* ------------------------------------------------------------ the snapshots

\* SnapShot.__post_init__: the timestamp is read from the date and time parts
\* of the file name (strptime of date_part + time_part), the AS map comes from
\* the importer of the suffix; msg_limit keeps its default, inf.
NewSnapShot(dir, date, time, suffix, as_map) ==
    [file_path |-> [dir |-> dir, date |-> date, time |-> time, suffix |-> suffix],
     timestamp |-> date * 10000 + time,
     as_map    |-> as_map,
     msg_limit |-> Inf]

\* The fields of an AS as the importers pass them to the constructor.
Fields(location, mid_path_count, end_path_count, path_sizes, announced_prefixes,
       neighbours) ==
    [location |-> location, mid_path_count |-> mid_path_count,
     end_path_count |-> end_path_count, path_sizes |-> path_sizes,
     announced_prefixes |-> announced_prefixes, neighbours |-> neighbours]

As100 == <<"1", "0", "0">>
As200 == <<"2", "0", "0">>
As300 == <<"3", "0", "0">>

Prefix4  == <<"10.0.0.0", "/", "8">>
Prefix4b == <<"192.0.2.0", "/", "2", "4">>
Prefix6  == <<"2001:db8::", "/", "3", "2">>

\* The snapshots of the model, every map as its importer builds it from the id
\* and the fields of every row:
\*   1. AS 100 seen 10 times, with AS 200;
\*   2. the same moment from another file, with other counts;
\*   3. AS 100 seen 10 times again, with AS 300;
\*   4. AS 100 seen 50 times, elsewhere;
\*   5. a row of empty cells.
SnapShotList ==
    LET AsMap(rows) == [as_id \in DOMAIN rows |-> AS(as_id, rows[as_id])]
    IN  <<NewSnapShot("one_day", 1, 0, ".json",
              AsMap((As100 :> Fields("BR", 4, 6, (1 :> 2) @@ (2 :> 4),
                                     {Prefix4, Prefix6}, {As200}))
                 @@ (As200 :> Fields("US", 6, 0, EmptyDict, {}, {As100})))),
          NewSnapShot("one_month", 1, 0, ".csv",
              AsMap((As100 :> Fields("BR", 5, 7, (1 :> 3) @@ (2 :> 4),
                                     {Prefix4}, {As200}))
                 @@ (As200 :> Fields("US", 7, 0, EmptyDict, {}, {As100})))),
          NewSnapShot("one_day", 2, 0, ".json",
              AsMap((As100 :> Fields("BR", 4, 6, (1 :> 2) @@ (2 :> 4),
                                     {Prefix4, Prefix6}, {As300}))
                 @@ (As300 :> Fields("ZZ", 1, 1, (3 :> 1), {Prefix4b}, {As100})))),
          NewSnapShot("one_day", 3, 1200, ".json",
              AsMap((As100 :> Fields("US", 47, 3, (1 :> 1) @@ (4 :> 2),
                                     {Prefix4, Prefix4b, Prefix6}, {As200, As300}))
                 @@ (As200 :> Fields("US", 6, 0, EmptyDict, {}, {As100})))),
          NewSnapShot("one_day", 4, 0, ".csv",
              AsMap(As300 :> Fields("ZZ", 0, 0, EmptyDict, {}, {})))>>

SnapShots == {SnapShotList[i] : i \in 1..Len(SnapShotList)}

\* The lists of at most n snapshots, repetitions included, up to the order of
\* their elements (set(snapshots) does not depend on it).
ListsOf(n) ==
    LET Ascending(f) == \A i, j \in DOMAIN f : i < j => f[i] <= f[j]
    IN  UNION {{[i \in 1..k |-> SnapShotList[f[i]]] :
                   f \in {g \in [1..k -> 1..Len(SnapShotList)] : Ascending(g)}} :
               k \in 0..n}

\* ---------------------------------------------- the calls of the Machine

\* The Machine after construction, before its first call.
MachineInit ==
    /\ peer = NoPeer
    /\ parser = [p \in Parsers |-> NewParser]
    /\ run = [p \in Parsers |-> NewRun(Inf)]
    /\ alone = [p \in Parsers |-> [self |-> NewParser, run |-> run[p], peer |-> NoPeer]]
    /\ machine = NewMachine
    /\ call = NoCall
    /\ score = NoScore
    /\ codec = NoCodec
    /\ merge = NoMerge

\* machine.train(snapshots): the Machine afterwards and the record of the call
DoTrain(snapshots) ==
    LET Returns(r) ==
            /\ machine' = r.self
            /\ call' = [op |-> "train", snapshots |-> snapshots,
                        distinct |-> PySet(snapshots), save |-> FALSE,
                        exc |-> r.exc, at |-> << >>, predictions |-> EmptyDict]
    IN  /\ Returns(Train(machine, snapshots))
        /\ UNCHANGED <<pvars, score, codec, merge>>

\* machine.predict(snapshot, save) and the record of the call
DoPredict(snapshot, save) ==
    LET Returns(r) ==
            call' = [op |-> "predict", snapshots |-> <<snapshot>>, distinct |-> {},
                     save |-> save, exc |-> r.exc, at |-> r.at,
                     predictions |-> r.predictions]
    IN  /\ Returns(Predict(machine, snapshot, save))
        /\ UNCHANGED <<pvars, machine, score, codec, merge>>

MachineNext ==
    \/ \E snapshots \in ListsOf(MaxTrain) : DoTrain(snapshots)
    \/ \E snapshot \in SnapShots, save \in BOOLEAN : DoPredict(snapshot, save)

MachineSpec == MachineInit /\ [][MachineNext]_vars

\* ------------------------------------------ the statistics of one property

\* The baseline of train and the score of predict as functions of one
\* property's history and of the value to validate: a history of at most
\* MaxHistory counts in 0 .. MaxCount with a value up to MaxCount + 1, or a
\* history of locations (places) with the location (place) to validate.
ScoreInputs ==
    LET HistoriesOver(values) == UNION {[1..k -> values] : k \in 1..MaxHistory}
        Locations == {"BR", "US"}
        FloatHistories ==
            {[i \in DOMAIN h |-> Float(h[i])] : h \in HistoriesOver(0..MaxCount)}
        ScoreInput(prty, history, value, places, place) ==
            [phase |-> "history", prty |-> prty, history |-> history,
             value |-> value, places |-> places, place |-> place,
             stats |-> << >>, warning_level |-> 0, behaviour |-> 0]
    IN  {ScoreInput("times_seen", h, Float(v), << >>, "") :
            h \in FloatHistories, v \in 0..(MaxCount + 1)}
        \cup {ScoreInput("location", << >>, Float(0), h, v) :
                 h \in HistoriesOver(Locations), v \in Locations \cup {"ZZ"}}

ScoreInit ==
    /\ peer = NoPeer
    /\ parser = [p \in Parsers |-> NewParser]
    /\ run = [p \in Parsers |-> NewRun(Inf)]
    /\ alone = [p \in Parsers |-> [self |-> NewParser, run |-> run[p], peer |-> NoPeer]]
    /\ machine = NewMachine
    /\ call = NoCall
    /\ score \in ScoreInputs
    /\ codec = NoCodec
    /\ merge = NoMerge

\* The body of `for prty, prty_history in data.items()` in train.
ScoreTrain ==
    /\ score.phase = "history"
    /\ score' = [score EXCEPT
                    !.phase = "trained",
                    !.stats = PropertyStats(score.prty,
                                  IF score.prty = "location" THEN score.places
                                  ELSE score.history)]
    /\ UNCHANGED <<pvars, machine, call, codec, merge>>

\* The body of `for prty in as_property_names` in predict.
ScorePredict ==
    LET Scored(prediction) ==
            [score EXCEPT !.phase = "scored",
                          !.warning_level = prediction.warning_level,
                          !.behaviour = prediction.behaviour]
    IN  /\ score.phase = "trained"
        /\ score' = Scored(PredictProperty(score.prty,
                               IF score.prty = "location" THEN score.place
                               ELSE score.value,
                               score.stats))
        /\ UNCHANGED <<pvars, machine, call, codec, merge>>

ScoreNext == ScoreTrain \/ ScorePredict

ScoreSpec == ScoreInit /\ [][ScoreNext]_vars

\* ------------------------------------------ AS(...), the exports, the imports

\* AS(id, ...): the dataclass constructor with __post_init__, for the fields d
\* as the caller passes them (path_sizes a frozenset of pairs): the
\* ValueError, or the one profile made.
NewAS(as_id, d) ==
    IF AsRaises(as_id) THEN [exc |-> "ValueError", made |-> << >>]
    ELSE [exc  |-> "",
          made |-> <<[id                 |-> StrOfInt(as_id),
                      location           |-> d.location,
                      mid_path_count     |-> d.mid_path_count,
                      end_path_count     |-> d.end_path_count,
                      path_sizes         |-> d.path_sizes,
                      announced_prefixes |-> d.announced_prefixes,
                      neighbours         |-> d.neighbours]>>]

\* AS.__eq__
ASEq(a, b) == a.id = b.id

\* hash(a): AS is a frozen dataclass that defines __eq__ and no __hash__ (the
\* one by id is commented out), so the dataclass generates __hash__ over all
\* its fields; the hash is held by the tuple of the fields (unequal tuples,
\* unequal hashes).
ASHash(a) ==
    <<a.id, a.location, a.mid_path_count, a.end_path_count, a.path_sizes,
      a.announced_prefixes, a.neighbours>>

\* set(profiles) of a list of profiles, and the keys of a dict filled from
\* it: an element is dropped when an earlier one has its hash and is equal to
\* it.
ASSet(profiles) ==
    {profiles[i] : i \in {k \in 1..Len(profiles) :
        ~\E j \in 1..(k - 1) :
            /\ ASHash(profiles[j]) = ASHash(profiles[k])
            /\ ASEq(profiles[j], profiles[k])}}

\* `for ...: as_map[as_id] = AS(as_id, ...)` of the importers, rows the fields
\* read for every id.
ImportRows(rows) ==
    IF \E as_id \in DOMAIN rows : NewAS(as_id, rows[as_id]).exc # ""
    THEN [exc |-> "ValueError", as_map |-> EmptyDict]
    ELSE [exc |-> "",
          as_map |-> [as_id \in DOMAIN rows |-> NewAS(as_id, rows[as_id]).made[1]]]

\* tuple(frozenset) and the iteration of a frozenset: the elements in an order
\* that the hashes decide, here one order or its reverse.
TupleOf(set, rev) ==
    LET Reverse(seq) == [i \in 1..Len(seq) |-> seq[Len(seq) + 1 - i]]
    IN  IF rev THEN Reverse(SetToSeq(set)) ELSE SetToSeq(set)

\* A Python list, which is what json_load makes of an array.
PyList(seq) == [list |-> seq]

\* AS.export_json
AS_export_json(a, rev) ==
    [location  |-> a.location,
     times_seen |-> times_seen(a),
     path      |-> [mid_path_count |-> a.mid_path_count,
                    end_path_count |-> a.end_path_count,
                    mean_path_size |-> mean_path_size(a),
                    path_sizes     |-> TupleOf(a.path_sizes, rev)],
     prefix    |-> [total_prefixes     |-> total_prefixes(a),
                    ipv4_count         |-> ipv4_count(a),
                    ipv6_count         |-> ipv6_count(a),
                    announced_prefixes |-> TupleOf(a.announced_prefixes, rev)],
     neighbour |-> [total_neighbours |-> total_neighbours(a),
                    neighbours       |-> TupleOf(a.neighbours, rev)]]

\* SnapShot.export_json: the content of the file as json_load reads it, i.e.
\* output_data with every tuple turned into a list by json_dump and json_load;
\* rev gives the iteration order of the sets of every AS.
export_json(self, rev) ==
    LET OutputData ==
            [snapshot_time |-> self.timestamp,
             as |-> [as_total |-> Cardinality(DOMAIN self.as_map),
                     as_info  |-> [as_id \in DOMAIN self.as_map |->
                                      AS_export_json(self.as_map[as_id],
                                                     rev[as_id])]]]
        JsonPairs(tuple) == PyList([i \in DOMAIN tuple |-> PyList(tuple[i])])
        JsonAs(obj) ==
            [obj EXCEPT !.path.path_sizes = JsonPairs(@),
                        !.prefix.announced_prefixes = PyList(@),
                        !.neighbour.neighbours = PyList(@)]
        JsonFile(output_data) ==
            [output_data EXCEPT
                !.as.as_info = [as_id \in DOMAIN @ |-> JsonAs(@[as_id])]]
    IN  JsonFile(OutputData)

\* The pairs read the other way round, (qnty, length).
PairsOfSwapped(path_sizes_raw) ==
    {<<path_sizes_raw.list[i].list[2], path_sizes_raw.list[i].list[1]>> :
        i \in DOMAIN path_sizes_raw.list}

\* frozenset((length, qnty) for length, qnty in path_sizes_raw)
PairsOf(path_sizes_raw) ==
    {<<path_sizes_raw.list[i].list[1], path_sizes_raw.list[i].list[2]>> :
        i \in DOMAIN path_sizes_raw.list}

\* MRTParser.import_json of the content of a file
import_json(input_data) ==
    LET JsonFields(as_data) ==
            Fields(as_data.location,
                   as_data.path.mid_path_count,
                   as_data.path.end_path_count,
                   PairsOf(as_data.path.path_sizes),
                   Range(as_data.prefix.announced_prefixes.list),
                   Range(as_data.neighbour.neighbours.list))
    IN  ImportRows([as_id \in DOMAIN input_data.as.as_info |->
                       JsonFields(input_data.as.as_info[as_id])])

\* dumps({length: qnty for length, qnty in as_instance.path_sizes}): the last
\* pair of a length decides its count, and the text is that of a JSON object
\* with every key as a string.
Dumps(pairs) ==
    LET LastWith(length) ==
            pairs[CHOOSE i \in DOMAIN pairs :
                      /\ pairs[i][1] = length
                      /\ \A j \in DOMAIN pairs : pairs[j][1] = length => j <= i]
        Members(keys) ==
            [i \in DOMAIN keys |->
                [key |-> StrOfNat(keys[i]), value |-> LastWith(keys[i])[2]]]
    IN  <<"{">> \o Members(SetToSeq({pairs[i][1] : i \in DOMAIN pairs}))
               \o <<"}">>

\* loads(text) for the text of a JSON object: a dict with string keys.
Loads(text) ==
    LET MembersOf == SubSeq(text, 2, Len(text) - 1)
    IN  [key \in {MembersOf[i].key : i \in DOMAIN MembersOf} |->
            (CHOOSE m \in Range(MembersOf) : m.key = key).value]

\* SnapShot.export_csv: the rows of the file as DictReader reads them, i.e. the
\* rows of csv_data with every cell turned into a string by DictWriter, '' for
\* None; rev gives the iteration order of the sets of every AS.
export_csv(self, rev) ==
    LET CsvRow(as_id, as_instance, r) ==
            [as_id          |-> as_id,
             location       |-> as_instance.location,
             mid_path_count |-> as_instance.mid_path_count,
             end_path_count |-> as_instance.end_path_count,
             path_sizes     |->
                 IF as_instance.path_sizes # {}
                 THEN Dumps(TupleOf(as_instance.path_sizes, r))
                 ELSE None,
             announced_prefixes |->
                 IF as_instance.announced_prefixes # {}
                 THEN PyJoin(<<";">>, TupleOf(as_instance.announced_prefixes, r))
                 ELSE None,
             neighbours     |->
                 IF as_instance.neighbours # {}
                 THEN PyJoin(<<";">>, TupleOf(as_instance.neighbours, r))
                 ELSE None]
        CsvCell(value) == IF value = None THEN << >> ELSE value
        CsvLine(row) ==
            [as_id              |-> row.as_id,
             location           |-> row.location,
             mid_path_count     |-> StrOfNat(row.mid_path_count),
             end_path_count     |-> StrOfNat(row.end_path_count),
             path_sizes         |-> CsvCell(row.path_sizes),
             announced_prefixes |-> CsvCell(row.announced_prefixes),
             neighbours         |-> CsvCell(row.neighbours)]
    IN  [as_id \in DOMAIN self.as_map |->
            CsvLine(CsvRow(as_id, self.as_map[as_id], rev[as_id]))]

\* The split without the test of the empty cell: ''.split(";") is [''].
SplitCellAlways(cell) == Range(PySplitOn(cell, ";"))

\* frozenset(raw.split(";")) if raw else frozenset()
SplitCell(cell) == IF cell # << >> THEN Range(PySplitOn(cell, ";")) ELSE {}

\* MRTParser.import_csv of the rows of a file
import_csv(rows) ==
    LET PathSizesDict(cell) == IF cell # << >> THEN Loads(cell) ELSE EmptyDict
        CsvFields(row) ==
            Fields(row.location,
                   IntOf(row.mid_path_count),
                   IntOf(row.end_path_count),
                   {<<IntOf(length), PathSizesDict(row.path_sizes)[length]>> :
                       length \in DOMAIN PathSizesDict(row.path_sizes)},
                   SplitCell(row.announced_prefixes),
                   SplitCell(row.neighbours))
        RowOf(as_id) == rows[CHOOSE k \in DOMAIN rows : rows[k].as_id = as_id]
    IN  ImportRows([as_id \in {rows[k].as_id : k \in DOMAIN rows} |->
                       CsvFields(RowOf(as_id))])

\* ----------------------------------------------- the profiles of CodecSpec

\* The arguments of AS(...) after the id: nothing seen, two of everything,
\* one of everything with numbers of two digits, eleven paths whose mean size
\* 15/11 is no float64, and a path size with the count 0.
ArgsList ==
    <<Fields("ZZ", 0, 0, {}, {}, {}),
      Fields("BR", 4, 6, {<<1, 2>>, <<2, 4>>}, {Prefix4, Prefix6}, {As200, As300}),
      Fields("US", 12, 0, {<<10, 1>>}, {Prefix4}, {As100}),
      Fields("BR", 0, 11, {<<1, 7>>, <<2, 4>>}, {Prefix4}, {As200}),
      Fields("ZZ", 1, 0, {<<1, 0>>}, {}, {As300})>>

\* The ids given to the constructor: decimal strings, other literals of int(),
\* and strings that are no integer.
IdStrings ==
    {As100, <<"7">>, <<"0", "0", "7">>,
     <<"u0663", "u0664">>, <<" ", "1", "2">>, <<"+", "5">>, <<"-", "3">>,
     <<"1", "_", "0">>,
     <<"A", "S", "1", "0", "0">>, << >>, <<"#", "1">>, <<"A", "S", "_", "u00E9">>}

CodecInit ==
    /\ peer = NoPeer
    /\ parser = [p \in Parsers |-> NewParser]
    /\ run = [p \in Parsers |-> NewRun(Inf)]
    /\ alone = [p \in Parsers |-> [self |-> NewParser, run |-> run[p], peer |-> NoPeer]]
    /\ machine = NewMachine
    /\ call = NoCall
    /\ score = NoScore
    /\ codec = NoCodec
    /\ merge = NoMerge

\* AS(as_id, ...), the profile put into the map under the id as given
DoAS(as_id, d) ==
    LET Constructed(r) ==
            [codec EXCEPT
                !.op = "AS", !.as_id = as_id, !.exc = r.exc, !.made = r.made,
                !.as_map = IF r.exc = "" THEN @ @@ (as_id :> r.made[1]) ELSE @]
    IN  /\ codec.op \in {"", "AS"}
        /\ Cardinality(DOMAIN codec.as_map) < MaxProfiles
        /\ as_id \notin DOMAIN codec.as_map
        /\ codec' = Constructed(NewAS(as_id, d))
        /\ UNCHANGED <<pvars, machine, call, score, merge>>

\* The record of an export of the snapshot that holds the map.
Exported(op, doc) ==
    [codec EXCEPT !.op = op, !.as_id = << >>, !.exc = "", !.made = << >>,
                  !.doc = doc]

\* SnapShot.export_json of the snapshot that holds the map
DoExportJson(rev) ==
    /\ codec.op \in {"", "AS"}
    /\ codec' = Exported("export_json",
                    export_json(NewSnapShot("one_day", 1, 0, ".bz2", codec.as_map),
                                rev))
    /\ UNCHANGED <<pvars, machine, call, score, merge>>

\* SnapShot.export_csv of the snapshot that holds the map
DoExportCsv(rev) ==
    /\ codec.op \in {"", "AS"}
    /\ codec' = Exported("export_csv",
                    export_csv(NewSnapShot("one_day", 1, 0, ".bz2", codec.as_map),
                               rev))
    /\ UNCHANGED <<pvars, machine, call, score, merge>>

\* The record of an import with outcome r.
Imported(op, r) == [codec EXCEPT !.op = op, !.exc = r.exc, !.out = r.as_map]

\* MRTParser.import_json of the exported file
DoImportJson ==
    /\ codec.op = "export_json"
    /\ codec' = Imported("import_json", import_json(codec.doc))
    /\ UNCHANGED <<pvars, machine, call, score, merge>>

\* MRTParser.import_csv of the exported file
DoImportCsv ==
    /\ codec.op = "export_csv"
    /\ codec' = Imported("import_csv", import_csv(codec.doc))
    /\ UNCHANGED <<pvars, machine, call, score, merge>>

CodecNext ==
    \/ \E as_id \in IdStrings, i \in DOMAIN ArgsList : DoAS(as_id, ArgsList[i])
    \/ \E rev \in [DOMAIN codec.as_map -> BOOLEAN] : DoExportJson(rev)
    \/ \E rev \in [DOMAIN codec.as_map -> BOOLEAN] : DoExportCsv(rev)
    \/ DoImportJson
    \/ DoImportCsv

CodecSpec == CodecInit /\ [][CodecNext]_vars

\* ------------------------------------- the merge of the mutable revision

\* AS(as_id, location) of the mutable revision: the ValueError of int(as_id),
\* or the one profile made, its id str(int(as_id)), its counts 0, its Counter
\* and its sets empty.
MutableAS(as_id, location) ==
    IF AsRaises(as_id) THEN [exc |-> "ValueError", made |-> << >>]
    ELSE [exc  |-> "",
          made |-> <<[id                 |-> StrOfInt(as_id),
                      location           |-> location,
                      mid_path_count     |-> 0,
                      end_path_count     |-> 0,
                      path_sizes         |-> EmptyDict,
                      announced_prefixes |-> {},
                      neighbours         |-> {}]>>]

\* self.import_json(data): the counts, the Counter keyed by int(k), the sets
AS_import_json(self, data) ==
    LET KeyOf(n) == CHOOSE k \in DOMAIN data.path.path_sizes : IntOf(k) = n
    IN  [self EXCEPT
            !.mid_path_count = data.path.mid_path_count,
            !.end_path_count = data.path.end_path_count,
            !.path_sizes =
                [n \in {IntOf(k) : k \in DOMAIN data.path.path_sizes} |->
                    data.path.path_sizes[KeyOf(n)]],
            !.announced_prefixes = Range(data.prefix.announced_prefixes),
            !.neighbours = Range(data.neighbour.neighbours)]

\* The merge with dict.update in the place of Counter.update: the counts of
\* other replace those of self.
AS_iaddOverwrite(self, other) ==
    IF self.id # other.id THEN [exc |-> "RuntimeError", self |-> self]
    ELSE [exc  |-> "",
          self |-> [self EXCEPT
              !.mid_path_count = @ + other.mid_path_count,
              !.end_path_count = @ + other.end_path_count,
              !.path_sizes =
                  [n \in DOMAIN @ \cup DOMAIN other.path_sizes |->
                      IF n \in DOMAIN other.path_sizes THEN other.path_sizes[n]
                      ELSE @[n]],
              !.announced_prefixes = @ \cup other.announced_prefixes,
              !.neighbours = @ \cup other.neighbours]]

\* self += other: the RuntimeError for two ids, raised before any field is
\* touched, or self with the counts of other added (Counter.update adds the
\* count of each length of other to that of self, 0 where self has none) and
\* the sets of other united with its own; id and location stay those of self.
AS_iadd(self, other) ==
    IF self.id # other.id THEN [exc |-> "RuntimeError", self |-> self]
    ELSE [exc  |-> "",
          self |-> [self EXCEPT
              !.mid_path_count = @ + other.mid_path_count,
              !.end_path_count = @ + other.end_path_count,
              !.path_sizes =
                  [n \in DOMAIN @ \cup DOMAIN other.path_sizes |->
                      IF n \in DOMAIN other.path_sizes
                      THEN other.path_sizes[n] + (IF n \in DOMAIN @ THEN @[n] ELSE 0)
                      ELSE @[n]],
              !.announced_prefixes = @ \cup other.announced_prefixes,
              !.neighbours = @ \cup other.neighbours]]

\* One section of as_info as json.load gives it to import_json.
Section(mid_path_count, end_path_count, path_sizes, announced_prefixes,
        neighbours) ==
    [path      |-> [mid_path_count |-> mid_path_count,
                    end_path_count |-> end_path_count,
                    path_sizes     |-> path_sizes],
     prefix    |-> [announced_prefixes |-> announced_prefixes],
     neighbour |-> [neighbours |-> neighbours]]

\* The sections the operands are imported from: nothing seen, and three with
\* path lengths, prefixes and neighbours in common, one of them with a
\* length of count 0.
SectionList ==
    <<Section(0, 0, EmptyDict, << >>, << >>),
      Section(2, 3, (<<"1">> :> 2) @@ (<<"2">> :> 3),
              <<Prefix4, Prefix6>>, <<As200, As300>>),
      Section(1, 0, (<<"2">> :> 1) @@ (<<"3">> :> 0), <<Prefix4>>, << >>),
      Section(5, 6, (<<"2">> :> 3) @@ (<<"3">> :> 8),
              <<Prefix4b, Prefix6>>, <<As100, As200>>)>>

\* The ids of the operands: one AS written in two ways, another AS, and a
\* string that is no integer.
MergeIds == {<<"7">>, <<"0", "0", "7">>, <<"8">>, <<"A", "S", "7">>}

\* The location arguments: the default "ZZ" of every construction of the
\* parser, and one given by the caller.
MergeLocations == {"ZZ", "BR"}

MergeInit ==
    /\ peer = NoPeer
    /\ parser = [p \in Parsers |-> NewParser]
    /\ run = [p \in Parsers |-> NewRun(Inf)]
    /\ alone = [p \in Parsers |-> [self |-> NewParser, run |-> run[p], peer |-> NoPeer]]
    /\ machine = NewMachine
    /\ call = NoCall
    /\ score = NoScore
    /\ codec = NoCodec
    /\ merge = NoMerge

\* known_as[as_id] = AS(as_id); known_as[as_id].import_json(as_data): the
\* next operand, a then b then c
DoMake(as_id, location, data) ==
    LET Made(r) ==
            IF r.exc # "" THEN [merge EXCEPT !.exc = r.exc]
            ELSE LET one == <<AS_import_json(r.made[1], data)>>
                 IN  IF merge.a = << >> THEN [merge EXCEPT !.exc = "", !.a = one]
                     ELSE IF merge.b = << >>
                          THEN [merge EXCEPT !.exc = "", !.b = one]
                          ELSE [merge EXCEPT !.exc = "", !.c = one]
    IN  /\ merge.c = << >>
        /\ merge' = Made(MutableAS(as_id, location))
        /\ UNCHANGED <<pvars, machine, call, score, codec>>

\* The statements of expression e on copies of the operands: the exception
\* and the left operand afterwards.
Merged(e, a, b, c) ==
    LET Then(r, other) == IF r.exc # "" THEN r ELSE AS_iadd(r.self, other)
        Into(self, r) ==
            IF r.exc # "" THEN [exc |-> r.exc, self |-> self]
            ELSE AS_iadd(self, r.self)
    IN  CASE e = "a+=b"      -> AS_iadd(a, b)
          [] e = "b+=a"      -> AS_iadd(b, a)
          [] e = "(a+=b)+=c" -> Then(AS_iadd(a, b), c)
          [] e = "a+=(b+=c)" -> Into(a, AS_iadd(b, c))

\* a += b; b += a; a += b, a += c; b += c, a += b: each on copies of the
\* three operands
DoIadd(e) ==
    /\ merge.c # << >>
    /\ merge.out[e] = << >>
    /\ merge' = [merge EXCEPT
                    !.out[e] = <<Merged(e, merge.a[1], merge.b[1], merge.c[1])>>]
    /\ UNCHANGED <<pvars, machine, call, score, codec>>

MergeNext ==
    \/ \E as_id \in MergeIds, location \in MergeLocations,
          i \in DOMAIN SectionList : DoMake(as_id, location, SectionList[i])
    \/ \E e \in DOMAIN merge.out : DoIadd(e)

MergeSpec == MergeInit /\ [][MergeNext]_vars

\* ------------------------------------------------- vocabulary of the claims

\* The tokens of the merged path of the entry that instance fields hold.
PathOf(self) == PySplit(_merge_as_path(self.as_path, self.as4_path))

StartsWithBrace(tok) == Len(tok) >= 1 /\ tok[1] = "{"
HasGap(path) == \E i \in 1..Len(path) : StartsWithBrace(path[i])

TimesSeen(as_map, a) ==
    IF a \in DOMAIN as_map
    THEN as_map[a].mid_path_count + as_map[a].end_path_count ELSE 0

RECURSIVE SumTimesSeen(_, _)
SumTimesSeen(as_map, ids) ==
    IF ids = {} THEN 0
    ELSE LET a == CHOOSE x \in ids : TRUE
         IN  TimesSeen(as_map, a) + SumTimesSeen(as_map, ids \ {a})

Credits(as_map) == SumTimesSeen(as_map, DOMAIN as_map)

PathSizeAt(as_map, a, k) ==
    IF a \in DOMAIN as_map /\ k \in DOMAIN as_map[a].path_sizes
    THEN as_map[a].path_sizes[k] ELSE 0

NeighboursOf(as_map, a) ==
    IF a \in DOMAIN as_map THEN as_map[a].neighbours ELSE {}

Occurrences(path, a) == Cardinality({i \in 1..Len(path) : path[i] = a})

\* The step read one more record of instance p's stream.
ReadBy(p) == run'[p].pos = run[p].pos + 1

\* The step is one RIB record of one entry that ran the update exactly once
\* and to its end.
OneUpdateBy(p) ==
    /\ ReadBy(p)
    /\ Len(run'[p].m.rib_entries) = 1
    /\ run'[p].updates = run[p].updates + 1
    /\ run'[p].exc \notin {"TypeError", "IndexError"}

\* ----------------------------------------------------------------------- C1

\* C1: one per-path update with a merged path of L+1 hops without a gap token
\* raises the sum of (mid_path_count + end_path_count) over all ASes by L+1,
\* raises path_sizes of the last hop by 1 at key L, and leaves every other
\* path_sizes entry of every AS as it was.
C1_PathCounting ==
    [][\A p \in Parsers :
        LET path == PathOf(parser'[p])
            L    == Len(path) - 1
            old  == parser[p].as_map
            new  == parser'[p].as_map
        IN  (OneUpdateBy(p) /\ L >= 0 /\ ~HasGap(path)) =>
            /\ Credits(new) = Credits(old) + L + 1
            /\ PathSizeAt(new, path[L + 1], L) = PathSizeAt(old, path[L + 1], L) + 1
            /\ \A a \in DOMAIN new \cup DOMAIN old :
                 \A k \in 0..(L + 2) \cup
                          (IF a \in DOMAIN new THEN DOMAIN new[a].path_sizes ELSE {}) \cup
                          (IF a \in DOMAIN old THEN DOMAIN old[a].path_sizes ELSE {}) :
                    <<a, k>> # <<path[L + 1], L>> =>
                        PathSizeAt(new, a, k) = PathSizeAt(old, a, k)
    ]_vars

\* A three-hop path (L = 2) without gap was counted on top of earlier paths.
C1_Witness ==
    \E p \in Parsers :
        /\ run[p].updates >= 2
        /\ Len(run[p].m.rib_entries) = 1
        /\ PathOf(parser[p]) = <<A1, A2, A3>>
        /\ PathSizeAt(parser[p].as_map, A3, 2) >= 1
        /\ parser[p].as_map[A2].mid_path_count >= 1

\* ----------------------------------------------------------------------- C2

\* C2: in every reachable parser state, if y is in the neighbour set of x
\* then y is a key of the AS map and x is in the neighbour set of y.
C2_NeighbourSymmetry ==
    \A p \in Parsers :
        \A x \in DOMAIN parser[p].as_map :
            \A y \in parser[p].as_map[x].neighbours :
                /\ y \in DOMAIN parser[p].as_map
                /\ x \in parser[p].as_map[y].neighbours

\* Three ASes are adjacent along a path: 1 - 2 - 3.
C2_Witness ==
    \E p \in Parsers :
        /\ {A1, A2, A3} \subseteq DOMAIN parser[p].as_map
        /\ parser[p].as_map[A2].neighbours = {A1, A3}
        /\ A2 \in parser[p].as_map[A1].neighbours

\* ----------------------------------------------------------------------- C3

\* C3: a RIB record whose entries are all processed runs the per-path update
\* exactly once per RIB entry, whatever the number of next hops of the entry.
C3_OncePerEntry ==
    [][\A p \in Parsers :
        (/\ ReadBy(p)
         /\ run'[p].m.subtype \in RibSubtypes
         /\ run'[p].exc \notin {"TypeError", "IndexError"})
        => run'[p].updates = run[p].updates + Len(run'[p].m.rib_entries)
    ]_vars

\* ----------------------------------------------------------------------- C4

\* C4: with a non-empty AS4_PATH the merged path is the first
\* max(0, len(AS_PATH) - len(AS4_PATH)) hops of AS_PATH followed by AS4_PATH;
\* with an empty AS4_PATH it is AS_PATH.
C4_Merge ==
    \A p \in Parsers :
        LET as_path  == parser[p].as_path
            as4_path == parser[p].as4_path
        IN  PathOf(parser[p]) =
                IF Len(as4_path) = 0 THEN as_path
                ELSE SubSeq(as_path, 1, Max(0, Len(as_path) - Len(as4_path)))
                        \o as4_path

\* ----------------------------------------------------------------------- C5

\* C5: a non-integer path token (set notation, confederation markers) is
\* recovered as a gap: it gets no AS-map entry, and no invalid-identifier
\* error (ValueError) comes out of import_bz2.
C5_PlaceholdersRecovered ==
    \A p \in Parsers :
        /\ \A as_id \in DOMAIN parser[p].as_map : IsInt(as_id)
        /\ run[p].exc # "ValueError"

\* ----------------------------------------------------------------------- C6

EndPositions(path, a) ==
    Cardinality({i \in {1, Len(path)} : path[i] = a})

\* The ASes that the path makes neighbours of a: the hops next to an
\* occurrence of a, a gap being no hop.
AdjacentOnPath(path, a) ==
    {path[j] : j \in {i \in 1..Len(path) :
        /\ ~StartsWithBrace(path[i])
        /\ \/ i > 1 /\ path[i - 1] = a
           \/ i < Len(path) /\ path[i + 1] = a}}

\* C6: in one update of a path with a gap token, the gap token gets no AS-map
\* entry, no credit and no place in any neighbour set; every other hop gets
\* the end or mid credit of its position; and the neighbour sets grow by the
\* pairs of consecutive non-gap hops only, so the hops on the two sides of a
\* gap are not made neighbours across it.
C6_GapHops ==
    [][\A p \in Parsers :
        LET path == PathOf(parser'[p])
            old  == parser[p].as_map
            new  == parser'[p].as_map
        IN  (OneUpdateBy(p) /\ HasGap(path)) =>
            /\ \A i \in 1..Len(path) :
                 IF StartsWithBrace(path[i])
                 THEN /\ path[i] \notin DOMAIN new
                      /\ \A a \in DOMAIN new : path[i] \notin new[a].neighbours
                 ELSE path[i] \in DOMAIN new
            /\ \A a \in DOMAIN new :
                 /\ new[a].end_path_count =
                        (IF a \in DOMAIN old THEN old[a].end_path_count ELSE 0)
                        + EndPositions(path, a)
                 /\ new[a].mid_path_count =
                        (IF a \in DOMAIN old THEN old[a].mid_path_count ELSE 0)
                        + Occurrences(path, a) - EndPositions(path, a)
                 /\ new[a].neighbours =
                        NeighboursOf(old, a) \cup
                        (IF Occurrences(path, a) > 0
                         THEN AdjacentOnPath(path, a) ELSE {})
    ]_vars

\* The path 1 {2,3} 3 was counted and 1 and 3 are not neighbours.
C6_Witness ==
    \E p \in Parsers :
        /\ run[p].updates >= 1
        /\ Len(PathOf(parser[p])) = 3
        /\ PathOf(parser[p])[1] = A1
        /\ StartsWithBrace(PathOf(parser[p])[2])
        /\ PathOf(parser[p])[3] = A3
        /\ {A1, A3} \subseteq DOMAIN parser[p].as_map
        /\ A3 \notin parser[p].as_map[A1].neighbours
        /\ parser[p].as_map[A1].end_path_count >= 1

\* ----------------------------------------------------------------------- C7

\* C7: a record flagged erroneous is skipped: the step changes no parser
\* field, not the peer table and not the message count, raises nothing, and
\* the instance goes on to its next record.
C7_ErrSkipped ==
    [][\A p \in Parsers :
        (ReadBy(p) /\ run'[p].m.err) =>
            /\ parser'[p] = parser[p]
            /\ peer' = peer
            /\ run'[p] = [run[p] EXCEPT !.pos = @ + 1, !.m = run'[p].m]
            /\ run'[p].status = "running"
    ]_vars

\* An erroneous record was read after a path had been counted.
C7_Witness ==
    \E p \in Parsers :
        /\ run[p].m.err
        /\ run[p].status = "running"
        /\ parser[p].as_map # EmptyDict
        /\ ~peer.none

\* ----------------------------------------------------------------------- C8

\* C8: a record of a type other than TABLE_DUMP_V2 is reported (one line
\* printed) and skipped: it raises nothing, the AS map and the peer table are
\* as before, it counts as a message, and unless the message ceiling is
\* reached the instance goes on to its next record.
C8_UnsupportedSkipped ==
    [][\A p \in Parsers :
        (ReadBy(p) /\ ~run'[p].m.err /\ run'[p].m.type # "TABLE_DUMP_V2") =>
            /\ parser'[p].as_map = parser[p].as_map
            /\ peer' = peer
            /\ run'[p].printed = run[p].printed + 1
            /\ run'[p].msg_count = run[p].msg_count + 1
            /\ run'[p].exc \notin {"TypeError", "IndexError"}
            /\ \/ run'[p].status = "running"
               \/ run'[p].msg_count >= run'[p].msg_limit
    ]_vars

\* An unsupported record was read after a path had been counted, and the
\* instance still runs.
C8_Witness ==
    \E p \in Parsers :
        /\ run[p].m.type = "BGP4MP"
        /\ run[p].printed = 1
        /\ run[p].status = "running"
        /\ parser[p].as_map # EmptyDict
        /\ ~peer.none

\* ----------------------------------------------------------------------- C9

\* C9: every peer lookup of a RIB entry resolves against the most recent
\* peer-index-table record of the instance's own stream (alone[p].peer), and
\* an instance whose stream had no such record resolves no entry.
C9_PeerTableOrdering ==
    [][\A p \in Parsers :
        (ReadBy(p) /\ run'[p].lookups > run[p].lookups) =>
            LET entry == run'[p].m.rib_entries[run'[p].lookups - run[p].lookups]
                own   == alone[p].peer
            IN  /\ ~own.none
                /\ entry.peer_index < Len(own.entries)
                /\ parser'[p].peer_ip = own.entries[entry.peer_index + 1].peer_ip
                /\ parser'[p].peer_as = own.entries[entry.peer_index + 1].peer_as
    ]_vars

\* ---------------------------------------------------------------------- C10

\* C10: every instance is, after any interleaving, where it would be if it
\* had run alone on its records: same outcome, same AS map, same result.
C10_NoInterference ==
    \A p \in Parsers :
        /\ run[p].status = alone[p].run.status
        /\ run[p].exc = alone[p].run.exc
        /\ parser[p].as_map = alone[p].self.as_map
        /\ run[p].result = alone[p].run.result

\* ------------------------------------------- vocabulary of the Machine claims

\* The ids of the AS maps of a list of snapshots.
IdsOf(snapshots) == UNION {DOMAIN snapshots[i].as_map : i \in 1..Len(snapshots)}

\* The last call was train, and it returned.
TrainReturned == call.op = "train" /\ call.exc = ""

\* The snapshots of a set in ascending order of timestamp.
TimestampLt(a, b) == a.timestamp < b.timestamp

ByTimestamp(snapshots) == SortSeq(SetToSeq(snapshots), TimestampLt)

\* No two snapshots of the list share a timestamp.
DistinctTimestamps(snapshots) ==
    \A i, j \in 1..Len(snapshots) :
        i # j => snapshots[i].timestamp # snapshots[j].timestamp

\* ---------------------------------------------------------------------- C11

\* C11: after any sequence of train calls, train_data is what a new Machine
\* holds after one train call with the snapshots of the last call; it has an
\* entry for an AS id only if the id is in a snapshot of the last call.
C11_TrainFromScratch ==
    TrainReturned =>
        /\ machine.train_data = Train(NewMachine, call.snapshots).self.train_data
        /\ DOMAIN machine.train_data \subseteq IdsOf(call.snapshots)

\* ---------------------------------------------------------------------- C12

\* C12: train returns for every non-empty collection of snapshots (one, two
\* or more, here of distinct moments); dataset then holds exactly the
\* snapshots passed, in non-decreasing order of timestamp, and the entry of
\* every AS is computed from its history in that order.
C12_DatasetSorted ==
    (call.op = "train" /\ Len(call.snapshots) >= 1
        /\ DistinctTimestamps(call.snapshots)) =>
        /\ call.exc = ""
        /\ Range(machine.dataset) = Range(call.snapshots)
        /\ Len(machine.dataset) = Len(call.snapshots)
        /\ \A i, j \in 1..Len(machine.dataset) :
               i < j => machine.dataset[i].timestamp <= machine.dataset[j].timestamp
        /\ \A as_id \in IdsOf(call.snapshots) :
               /\ as_id \in DOMAIN machine.train_data
               /\ machine.train_data[as_id] =
                      TrainEntry(ForSnapshot(ByTimestamp(Range(call.snapshots)),
                                             EmptyDict)[as_id])

\* ---------------------------------------------------------------------- C13

\* C13: two snapshots of one timestamp are equal and have one hash, whatever
\* their files; the set that train builds from a collection holds one snapshot
\* per timestamp, train returns, and dataset holds at most one snapshot per
\* timestamp.
C13_SameTimestampCollapse ==
    call.op = "train" =>
        /\ \A a, b \in Range(call.snapshots) :
               a.timestamp = b.timestamp =>
                   SnapShotEq(a, b) /\ SnapShotHash(a) = SnapShotHash(b)
        /\ \A a, b \in call.distinct : a.timestamp = b.timestamp => a = b
        /\ (\A a, b \in Range(call.snapshots) : a.timestamp = b.timestamp) =>
               /\ call.exc = ""
               /\ Len(machine.dataset) <= 1

\* ---------------------------------------------------------------------- C14

NumericNames == {prty \in Range(PredictPropertyNames) : prty # "location"}

\* The AS is in a snapshot of the dataset, and the property is c in every
\* snapshot of the dataset that contains the AS.
ConstantIn(dataset, as_id, prty, c) ==
    /\ \E i \in 1..Len(dataset) : as_id \in DOMAIN dataset[i].as_map
    /\ \A i \in 1..Len(dataset) :
           as_id \in DOMAIN dataset[i].as_map
               => GetAttr(dataset[i].as_map[as_id], prty) = c

\* The values of a property of an AS in the snapshots of the dataset.
ValuesIn(dataset, as_id, prty) ==
    {GetAttr(dataset[i].as_map[as_id], prty) :
        i \in {j \in 1..Len(dataset) : as_id \in DOMAIN dataset[j].as_map}}

\* The last call scored a snapshot in which the property of the AS is c.
ScoredAt(as_id, prty, c) ==
    /\ call.op = "predict"
    /\ call.exc = ""
    /\ as_id \in DOMAIN call.snapshots[1].as_map
    /\ GetAttr(call.snapshots[1].as_map[as_id], prty) = c

C17_RangeViolation ==
    \A as_id \in IdsOf(call.snapshots) :
        (/\ call.op = "train"
         /\ Len(call.snapshots) = 2
         /\ DistinctTimestamps(call.snapshots)
         /\ \A i \in 1..2 : as_id \in DOMAIN call.snapshots[i].as_map
         /\ GetAttr(call.snapshots[1].as_map[as_id], "times_seen")
                = GetAttr(call.snapshots[2].as_map[as_id], "times_seen")) =>
            /\ call.exc = ""
            /\ \A third \in SnapShots :
                   (/\ as_id \in DOMAIN third.as_map
                    /\ GetAttr(third.as_map[as_id], "times_seen")
                           # GetAttr(call.snapshots[1].as_map[as_id], "times_seen")) =>
                       Predict(machine, third, FALSE)
                           .predictions[as_id].props["times_seen"].warning_level >= 1

\* ---------------------------------------------------------------------- C15

\* The value is outside [min_, max_] of the baseline.
OutsideRange(value, stats) == RLt(value, stats.min_) \/ RLt(stats.max_, value)

\* The normal-CDF probability of z = (value - mean) / std is below 0.05 or above
\* 0.95: z * z is above 1.64485 * 1.64485 (stats.std_d holds std * std).
InTail(value, stats) ==
    RLt(RMul(<<27055, 10000>>, stats.std_d),
        RMul(RSub(value, stats.mean), RSub(value, stats.mean)))

\* C15: the warning level of a numeric property is 1 when the value is outside
\* [min_, max_] plus 2 when the standard deviation is not zero and the value is
\* in a 5% tail, so it is one of 0, 1, 2, 3; the warning level of the location
\* is 2 when it differs from the stored mode and 0 otherwise.
C15_AdditiveWarning ==
    score.phase = "scored" =>
        IF score.prty = "location"
        THEN score.warning_level =
                 (IF score.place # score.stats.location THEN 2 ELSE 0)
        ELSE /\ score.warning_level =
                    (IF OutsideRange(score.value, score.stats) THEN 1 ELSE 0)
                    + (IF /\ score.stats.std_d # Float(0)
                          /\ InTail(score.value, score.stats)
                       THEN 2 ELSE 0)
             /\ score.warning_level \in 0..3

\* A value got both weights: outside the range and in a tail.
C15_Witness ==
    /\ score.phase = "scored"
    /\ score.prty # "location"
    /\ score.warning_level = 3

\* --------------------------------------------- vocabulary of the codec claims

\* Two profiles agree in every field.
SameFields(a, b) ==
    /\ a.id = b.id
    /\ a.location = b.location
    /\ a.mid_path_count = b.mid_path_count
    /\ a.end_path_count = b.end_path_count
    /\ a.path_sizes = b.path_sizes
    /\ a.announced_prefixes = b.announced_prefixes
    /\ a.neighbours = b.neighbours

\* The imported map has the keys of the exported one and field-wise equal
\* profiles.
SameMap(out, as_map) ==
    /\ DOMAIN out = DOMAIN as_map
    /\ \A as_id \in DOMAIN as_map : SameFields(out[as_id], as_map[as_id])

\* The exported map has a profile with two path sizes, two prefixes and two
\* neighbours, and a profile with none.
FullAndEmpty(as_map) ==
    /\ \E as_id \in DOMAIN as_map :
           /\ Cardinality(as_map[as_id].path_sizes) = 2
           /\ Cardinality(as_map[as_id].announced_prefixes) = 2
           /\ Cardinality(as_map[as_id].neighbours) = 2
    /\ \E as_id \in DOMAIN as_map :
           /\ as_map[as_id].path_sizes = {}
           /\ as_map[as_id].announced_prefixes = {}
           /\ as_map[as_id].neighbours = {}

\* ---------------------------------------------------------------------- C18

\* C18: import_json of the file written by export_json returns, with a map of
\* the same keys whose profiles equal the exported ones in every field (a map
\* of one profile is the round trip of that profile).
C18_JsonRoundTrip ==
    codec.op = "import_json" =>
        /\ codec.exc = ""
        /\ SameMap(codec.out, codec.as_map)

\* A full and an empty profile came back from a JSON file.
C18_Witness ==
    /\ codec.op = "import_json"
    /\ FullAndEmpty(codec.as_map)
    /\ codec.out # EmptyDict

\* ---------------------------------------------------------------------- C19

\* C19: import_csv of the file written by export_csv returns, with a map of
\* the same keys whose profiles equal the exported ones in every field; empty
\* path_sizes and empty sets come back empty.
C19_CsvRoundTrip ==
    codec.op = "import_csv" =>
        /\ codec.exc = ""
        /\ SameMap(codec.out, codec.as_map)
        /\ \A as_id \in DOMAIN codec.as_map \cap DOMAIN codec.out :
               /\ codec.as_map[as_id].path_sizes = {}
                      => codec.out[as_id].path_sizes = {}
               /\ codec.as_map[as_id].announced_prefixes = {}
                      => codec.out[as_id].announced_prefixes = {}
               /\ codec.as_map[as_id].neighbours = {}
                      => codec.out[as_id].neighbours = {}

\* A full and an empty profile came back from a CSV file, one of them under a
\* key that is not its canonical id.
C19_Witness ==
    /\ codec.op = "import_csv"
    /\ FullAndEmpty(codec.as_map)
    /\ \E as_id \in DOMAIN codec.out : codec.out[as_id].id # as_id

\* ---------------------------------------------------------------------- C20

\* A plain decimal integer string: ASCII digits, at least one.
PlainDecimal(str) == Len(str) >= 1 /\ \A i \in 1..Len(str) : str[i] \in Digits

\* The decimal string without its leading zeros.
Canonical(str) ==
    SubSeq(str,
           CHOOSE i \in 1..Len(str) :
               /\ i = Len(str) \/ str[i] # "0"
               /\ \A j \in 1..(i - 1) : str[j] = "0",
           Len(str))

\* C20: AS(id, ...) with an id that is not a plain decimal integer string
\* (letters, the empty string, special characters, digits outside ASCII)
\* raises the ValueError of the invalid identifier and makes no profile; with
\* a plain decimal integer string it makes a profile whose id is the canonical
\* decimal string.
C20_InvalidIdRejected ==
    codec.op = "AS" =>
        IF PlainDecimal(codec.as_id)
        THEN /\ codec.exc = ""
             /\ Len(codec.made) = 1
             /\ codec.made[1].id = Canonical(codec.as_id)
        ELSE /\ codec.exc = "ValueError"
             /\ codec.made = << >>
             /\ codec.as_id \notin DOMAIN codec.as_map


\* ----------------------------------------- vocabulary of the parser claims

\* sum(as_dict["path_sizes"].values())
SumPathSizes(as_dict) ==
    SumOver(DOMAIN as_dict.path_sizes,
            [k \in DOMAIN as_dict.path_sizes |-> as_dict.path_sizes[k]])

\* The step is one RIB record of one entry whose peer lookup succeeded.
OneEntryBy(p) ==
    /\ ReadBy(p)
    /\ Len(run'[p].m.rib_entries) = 1
    /\ run'[p].lookups = run[p].lookups + 1

\* ---------------------------------------------------------------------- C23

\* C23: import_bz2 with ceiling N applies at most N records of its stream to
\* the AS map, for every N >= 0, and what it returns for a stream and N is
\* what it returns on every run (here: on the run that has `peer` to itself).
C23_MessageCeiling ==
    \A p \in Parsers :
        /\ run[p].msg_count <= run[p].msg_limit
        /\ run[p].status = "done" =>
              /\ alone[p].run.status = "done"
              /\ run[p].result = alone[p].run.result

\* ---------------------------------------------------------------------- C28

\* C28: after any sequence of processed records every AS of the parser's map
\* has total_prefixes <= sum of its path_sizes counts <= end_path_count
\* <= times_seen; and path_sizes and announced_prefixes of an AS change only
\* in an update whose path has the AS as its last hop, so an AS that never was
\* a last hop has both empty.
C28_CounterOrdering ==
    /\ [](\A p \in Parsers : \A a \in DOMAIN parser[p].as_map :
            LET d == parser[p].as_map[a]
            IN  /\ Cardinality(d.announced_prefixes) <= SumPathSizes(d)
                /\ SumPathSizes(d) <= d.end_path_count
                /\ d.end_path_count <= d.mid_path_count + d.end_path_count)
    /\ [][\A p \in Parsers :
            OneEntryBy(p) =>
                \A a \in DOMAIN parser'[p].as_map :
                    LET path == PathOf(parser'[p])
                        new  == parser'[p].as_map[a]
                        old  == IF a \in DOMAIN parser[p].as_map
                                THEN parser[p].as_map[a] ELSE NewAsDict(a)
                    IN  (Len(path) = 0 \/ path[Len(path)] # a) =>
                            /\ new.path_sizes = old.path_sizes
                            /\ new.announced_prefixes = old.announced_prefixes
       ]_vars

\* The path 1 2 3 was counted twice: the origin 3 announced one prefix on two
\* paths, 1 has end credits only and 2 mid credits only, and neither was ever
\* a last hop.
C28_Witness ==
    \E p \in Parsers :
        /\ {A1, A2, A3} \subseteq DOMAIN parser[p].as_map
        /\ Cardinality(parser[p].as_map[A3].announced_prefixes) = 1
        /\ SumPathSizes(parser[p].as_map[A3]) = 2
        /\ parser[p].as_map[A3].end_path_count >= 2
        /\ parser[p].as_map[A1].end_path_count >= 2
        /\ parser[p].as_map[A2].mid_path_count >= 2
        /\ parser[p].as_map[A1].path_sizes = EmptyDict
        /\ parser[p].as_map[A2].announced_prefixes = {}

\* ---------------------------------------------------------------------- C29

\* C29: after any sequence of processed paths, paths with the same AS id at
\* consecutive positions included, no AS has its own id in its neighbour set.
C29_NoSelfAdjacency ==
    \A p \in Parsers :
        \A a \in DOMAIN parser[p].as_map : a \notin parser[p].as_map[a].neighbours

\* ---------------------------------------------------------------------- C30

\* C30: a RIB entry with at least one next hop whose merged path has no token
\* raises nothing and leaves the AS map as it was, the record counts as a
\* message, and unless the ceiling is reached the instance goes on to its next
\* record.
C30_EmptyPath ==
    [][\A p \in Parsers :
        (/\ OneEntryBy(p)
         /\ Len(parser'[p].next_hop) >= 1
         /\ Len(PathOf(parser'[p])) = 0)
        => /\ run'[p].exc = ""
           /\ parser'[p].as_map = parser[p].as_map
           /\ run'[p].msg_count = run[p].msg_count + 1
           /\ \/ run'[p].status = "running"
              \/ run'[p].msg_count >= run'[p].msg_limit
    ]_vars

\* ---------------------------------------------------------------------- C21

\* C21: any two AS profiles with the same id compare equal and have equal
\* hashes whatever their other fields, two profiles with different ids
\* compare unequal, and a set of profiles holds at most one profile per id.
C21_IdentityIsAsNumber ==
    LET profiles == {codec.as_map[k] : k \in DOMAIN codec.as_map}
    IN  /\ \A a, b \in profiles :
              IF a.id = b.id
              THEN ASEq(a, b) /\ ASHash(a) = ASHash(b)
              ELSE ~ASEq(a, b)
        /\ \A a, b \in ASSet(SetToSeq(profiles)) : a.id = b.id => a = b

\* ---------------------------------------------------------------------- C27

\* C27: in every AS map that import_csv or import_json returns, each key is
\* the id of the profile stored under it, and no two entries hold profiles
\* that compare equal.
C27_KeyIdAgreement ==
    (codec.op \in {"import_json", "import_csv"} /\ codec.exc = "") =>
        /\ \A as_id \in DOMAIN codec.out : codec.out[as_id].id = as_id
        /\ \A j, k \in DOMAIN codec.out :
              j # k => ~ASEq(codec.out[j], codec.out[k])

\* ---------------------------------------------------------------------- C24

\* x * t in all its bits, for a float64 x and an int 0 < t < 16: the two
\* limbs <<high, low>> of mantissa * t, in units of the last place of x.
ExactTimes(x, t) ==
    <<x.hi * t + ((x.lo * t) \div 134217728), (x.lo * t) % 134217728>>

\* x * t as Python computes it, for a float64 x and an int 0 < t < 16: the
\* int becomes a float64 exactly and the product is rounded to nearest, ties
\* to even.
Float64Times(x, t) ==
    LET RECURSIVE Excess(_)
        \* the bits that the high limb has beyond its 26
        Excess(hi) == IF hi < 67108864 THEN 0 ELSE 1 + Excess(hi \div 2)
        Carried(hi, lo, e) ==
            IF lo < 134217728 THEN [hi |-> hi, lo |-> lo, exp |-> e]
            ELSE IF hi + 1 < 67108864 THEN [hi |-> hi + 1, lo |-> 0, exp |-> e]
            ELSE [hi |-> 33554432, lo |-> 0, exp |-> e + 1]
        Shifted(p, k) ==
            LET dropped == p[2] % (2 ^ k)
                lo == (p[2] \div (2 ^ k)) + (p[1] % (2 ^ k)) * (2 ^ (27 - k))
            IN  IF k > 0 /\ (2 * dropped > 2 ^ k
                             \/ (2 * dropped = 2 ^ k /\ lo % 2 = 1))
                THEN Carried(p[1] \div (2 ^ k), lo + 1, x.exp + k)
                ELSE Carried(p[1] \div (2 ^ k), lo, x.exp + k)
    IN  IF x.hi = 0 THEN x
        ELSE Shifted(ExactTimes(x, t), Excess(ExactTimes(x, t)[1]))

\* The mean, the total count T and the sum of size * count that export_json
\* wrote for one AS; the pairs are read as import_json reads them.
MeanWritten(info) == info.path.mean_path_size
TotalWritten(info) ==
    SumOver(PairsOf(info.path.path_sizes),
            [sc \in PairsOf(info.path.path_sizes) |-> sc[2]])
SumWritten(info) ==
    SumOver(PairsOf(info.path.path_sizes),
            [sc \in PairsOf(info.path.path_sizes) |-> sc[1] * sc[2]])

\* x * t is the int w up to the rounding of x: the exact product is at most
\* t / 2 units of the last place of x away from w (x is the float64 nearest
\* to w / t).
NearestQuotient(x, t, w) ==
    LET diff == ExactTimes(x, t)[1] - w * (2 ^ (25 - x.exp))
    IN  /\ diff \in -1..1
        /\ 2 * (diff * 134217728 + ExactTimes(x, t)[2]) <= t
        /\ 2 * (diff * 134217728 + ExactTimes(x, t)[2]) >= 0 - t

\* C24 as stated: for every path_sizes with a total count T > 0,
\* mean_path_size * T equals the sum of size * count, and for an empty
\* path_sizes or one whose counts are all 0, mean_path_size is 0.
C24_MeanTimesTotal ==
    codec.op = "export_json" =>
        \A as_id \in DOMAIN codec.doc.as.as_info :
            LET info == codec.doc.as.as_info[as_id]
            IN  IF TotalWritten(info) > 0
                THEN Float64Times(Float64(MeanWritten(info)), TotalWritten(info))
                        = Float64(Float(SumWritten(info)))
                ELSE MeanWritten(info) = Float(0)

\* C24 amended: for every path_sizes with a total count T > 0, mean_path_size
\* is the float64 nearest to (sum of size * count) / T, so mean_path_size * T
\* is the sum up to that rounding (at most T / 2 units of the last place of
\* the mean); and for an empty path_sizes or one whose counts are all 0,
\* mean_path_size is exactly 0.
C24_MeanIsNearestQuotient ==
    codec.op = "export_json" =>
        \A as_id \in DOMAIN codec.doc.as.as_info :
            LET info == codec.doc.as.as_info[as_id]
            IN  IF TotalWritten(info) > 0
                THEN NearestQuotient(Float64(MeanWritten(info)),
                                     TotalWritten(info), SumWritten(info))
                ELSE MeanWritten(info) = Float(0)

\* Exported: a profile of eleven paths whose mean times 11 is not 15 in
\* float64, and a profile whose only path size has the count 0.
C24_Witness ==
    /\ codec.op = "export_json"
    /\ \E as_id \in DOMAIN codec.doc.as.as_info :
           LET info == codec.doc.as.as_info[as_id]
           IN  /\ TotalWritten(info) = 11
               /\ SumWritten(info) = 15
               /\ Float64Times(Float64(MeanWritten(info)), 11)
                      # Float64(Float(15))
    /\ \E as_id \in DOMAIN codec.doc.as.as_info :
           LET info == codec.doc.as.as_info[as_id]
           IN  /\ info.path.path_sizes.list # << >>
               /\ TotalWritten(info) = 0

\* ---------------------------------------------------------------------- C25

\* C25: the behaviour that predict gives a numeric property is +1 iff the
\* trained slope is above 0.1, -1 iff it is below -0.1 and 0 otherwise (a
\* slope of exactly 0.1 or -0.1 is stable), whatever the value observed; the
\* behaviour of location is always 0.
C25_TrendFromSlope ==
    score.phase = "scored" =>
        IF score.prty = "location" THEN score.behaviour = 0
        ELSE /\ score.behaviour = 1 <=> RLt(<<1, 10>>, score.stats.slope)
             /\ score.behaviour = -1 <=> RLt(score.stats.slope, <<-1, 10>>)
             /\ score.behaviour = 0 <=>
                    /\ ~RLt(<<1, 10>>, score.stats.slope)
                    /\ ~RLt(score.stats.slope, <<-1, 10>>)

\* A trained slope of exactly 0.1 was scored as stable, on a value outside the
\* trained range.
C25_Witness ==
    /\ score.phase = "scored"
    /\ score.prty # "location"
    /\ score.stats.slope = <<1, 10>>
    /\ score.behaviour = 0
    /\ score.warning_level >= 1

\* ---------------------------------------------------------------------- C26

\* The smallest and the largest sample of a history.
SampleMin(h) == CHOOSE x \in Range(h) : \A y \in Range(h) : ~RLt(y, x)
SampleMax(h) == CHOOSE x \in Range(h) : \A y \in Range(h) : ~RLt(x, y)

\* a <= b <= c ... along a sequence of numbers.
Ascending(seq) == \A i \in 1..(Len(seq) - 1) : ~RLt(seq[i + 1], seq[i])

\* C26: for every non-empty history of a numeric property train stores
\* robust-min = max(sample min, Q1 - 1.5*IQR) and
\* robust-max = min(sample max, Q3 + 1.5*IQR), so
\* sample min <= robust-min <= Q1 <= Q3 <= robust-max <= sample max.
C26_RobustRange ==
    (score.phase \in {"trained", "scored"} /\ score.prty # "location") =>
        LET Q1  == Percentile(score.history, 25)
            Q3  == Percentile(score.history, 75)
            IQR == RSub(Q3, Q1)
        IN  /\ score.stats.min_ =
                   RMax(SampleMin(score.history), RSub(Q1, RMul(<<3, 2>>, IQR)))
            /\ score.stats.max_ =
                   RMin(SampleMax(score.history), RAdd(Q3, RMul(<<3, 2>>, IQR)))
            /\ Ascending(<<SampleMin(score.history), score.stats.min_, Q1, Q3,
                           score.stats.max_, SampleMax(score.history)>>)

\* A history with an outlier and distinct quartiles was trained: the stored
\* maximum is the upper fence, below the largest sample, and the stored
\* minimum is the smallest sample.
C26_Witness ==
    /\ score.phase = "trained"
    /\ score.prty # "location"
    /\ Len(score.history) = MaxHistory
    /\ RLt(score.stats.max_, SampleMax(score.history))
    /\ score.stats.min_ = SampleMin(score.history)
    /\ RLt(Percentile(score.history, 25), Percentile(score.history, 75))

\* ------------------------------------------------------------------ C22

\* The count of paths of length n in the Counter of a profile.
CountOf(profile, n) ==
    IF n \in DOMAIN profile.path_sizes THEN profile.path_sizes[n] ELSE 0

\* The lengths some operand has counted.
LengthsSeen ==
    UNION {DOMAIN x[1].path_sizes : x \in {merge.a, merge.b, merge.c} \ {<< >>}}

\* The fields of a profile that the merge adds or unites, with the id.
MergedFields(profile) ==
    <<profile.id, profile.mid_path_count, profile.end_path_count,
      profile.path_sizes, profile.announced_prefixes, profile.neighbours>>

\* The three operands are made and share one AS id.
OneAS ==
    /\ merge.c # << >>
    /\ merge.a[1].id = merge.b[1].id
    /\ merge.b[1].id = merge.c[1].id

====
